---- MODULE Spec2Model ----
(***************************************************************************)
(* The pipeline observability core of event-manager.py: the event bus      *)
(* (PipelineEventManager), its subscribers (LoggingSubscriber,             *)
(* FileStorageSubscriber, MetricsCollector) and the publishing threads.    *)
(* Every thread is a Python thread; one action is one step between two     *)
(* points where the interpreter may switch threads.                        *)
(***************************************************************************)
EXTENDS Naturals, Integers, Sequences, FiniteSets, TLC

\* ---------------------------------------------------------------- bounds
\* time.time() is read from the counter now, which ticks up to MaxClock
MaxClock == 1
\* publish_event calls made over one behaviour of Spec
MaxPublish == 2
\* length the subscriber list may grow to
MaxSubs == 4
\* PipelineEventManager() calls made over one behaviour of SpecCtor
MaxConstruct == 3
\* record_* calls made over one behaviour of SpecMetrics and of SpecExport
MaxRecord == 3
\* mutations a caller makes to one dict it got from export_metrics
MaxMutate == 1
\* calls of the operation wrapped by step_timing over one behaviour of SpecWrap
MaxCalls == 1

\* register_subscriber calls made after the defaults
MaxRegister == 2

\* the longest list in st.session_state
MaxList == 2

Threads == {"t1", "t2"}

\* the pipeline ids of the contexts
Pipelines == {"p1", "p2"}

\* Python's None
None == "None"

VARIABLES
  now,          \* the value time.time() returns
  subscribers,  \* PipelineEventManager.subscribers: the registered objects, in order
  metrics,      \* MetricsCollector.metrics
  file_locks,   \* FileStorageSubscriber.file_locks: path -> lock object
  nlocks,       \* lock objects created so far (a lock is its number)
  held,         \* the lock objects that are held
  files,        \* the file system under output_dir: path -> lines
  pc,           \* where each thread is
  ev,           \* the event dict each thread is publishing
  arg,          \* the event dict as it was passed to publish_event
  idx,          \* the list iterator of publish_event's for loop (1-based)
  snap,         \* the subscriber list as it stood when publish_event was entered
  calls,        \* the handle_event calls of the thread's current publish_event
  result,       \* how the thread's last publish_event ended
  cur,          \* the lock object the thread took from file_locks
  npub,         \* publish_event calls so far
  handled,      \* the events MetricsCollector.handle_event was called with, in order
  \* the construction of the bus by several threads
  instance,     \* PipelineEventManager._instance: 0 is None
  initialized,  \* its _initialized
  lists,        \* the list objects created by __init__ (a list is its number)
  subs_ref,     \* its subscribers: the list object it refers to, 0 before it is set
  mc_ref,       \* its metrics_collector: the collector object, 0 before it is set
  lock_ref,     \* its lock: the lock object, 0 before it is set
  nobj,         \* collector and lock objects created so far (an object is its number)
  ipc,          \* where each thread is in PipelineEventManager()
  ilist,        \* the list a thread's register_subscriber is appending to
  isub,         \* the subscriber a thread's register_subscriber was given
  got,          \* the instance each thread's PipelineEventManager() gave it
  nctor,        \* PipelineEventManager() calls so far
  ninit,        \* how many times the body of __init__ was entered
  \* the PipelineContext objects
  start_time,   \* PipelineContext.start_time of the context of each pipeline id
  step_times,   \* PipelineContext.step_times of the context of each pipeline id
  \* a caller of export_metrics
  exported,     \* the value export_metrics returned to it, NoExport before
  \* an operation wrapped by step_timing, called by thread t1
  wpc,          \* where the wrapper is
  wcall,        \* the contexts of the call: given to step_timing, first argument, context keyword
  wctx,         \* the pipeline id of the context the wrapper resolved
  wfunc,        \* how the wrapped operation ended
  wout,         \* how the wrapper ended for its caller
  emitted,      \* the events the wrapper's call has published, in order
  ncalls,       \* calls of the wrapper so far
  \* the locks, and what concurrent callers were given
  mlock,        \* MetricsCollector.lock: the thread that holds it, or NoOwner
  reglock,      \* PipelineEventManager.lock: the thread that holds it, or NoOwner
  seen,         \* what the last accessor call of a reader returned
  sent,         \* the publish_event calls made: thread and event, in order
  registered,   \* the register_subscriber calls that have returned, in order
  rsub,         \* per thread: the argument of its register_subscriber call
  \* src/state-manager.py: one SessionState object and st.session_state
  sval,         \* SessionState.value
  slock,        \* SessionState.lock (an RLock): the thread that holds it, or NoOwner
  spc,          \* per thread: where it is inside SessionState.get or set
  snew,         \* per thread: the new_value of its set call
  sret,         \* per thread: how its last get or set call ended
  accepted,     \* the values given to set calls that returned
  session_state,\* st.session_state: key -> value
  aout          \* the last AppStateManager call and how it ended

busVars == <<now, subscribers, metrics, file_locks, nlocks, held, files,
             pc, ev, arg, idx, snap, calls, result, cur, npub, handled>>

ctorVars == <<instance, initialized, lists, subs_ref, mc_ref, lock_ref, nobj,
              ipc, ilist, isub, got, nctor, ninit>>

ctxVars == <<start_time, step_times>>

expVars == <<exported>>

wrapVars == <<wpc, wcall, wctx, wfunc, wout, emitted, ncalls>>

concVars == <<mlock, reglock, seen, sent, registered, rsub>>

stateVars == <<sval, slock, spc, snew, sret, accepted, session_state, aout>>

\* what a step of a thread inside the bus leaves alone
nonBus == <<ctorVars, ctxVars, expVars, wrapVars, concVars, stateVars>>

vars == <<busVars, ctorVars, ctxVars, expVars, wrapVars, concVars, stateVars>>

\* ------------------------------------------------------------ dictionaries
\* dict.get(key, default)
Get(d, k, default) == IF k \in DOMAIN d THEN d[k] ELSE default

\* d[k] = v
Put(d, k, v) == (k :> v) @@ d

\* no event: the thread is not inside publish_event
NoEvent == [event_type |-> "none"]

\* no subscriber: the thread is not inside register_subscriber
NoSubscriber == [kind |-> "None", id |-> 0]

\* nothing exported yet
NoExport == [kind |-> "None"]

\* -------------------------------------------------------------- subscribers
\* The subscriber objects.  Logging, File and Metrics are the three that
\* __init__ registers; Base is a plain EventSubscriber(), whose handle_event
\* raises NotImplementedError; LogMetric is LoggingSubscriber(["metric"]).
\* Edit and Spawn are subclasses written by a user of the bus, EventSubscriber()
\* with the default filter: Edit.handle_event assigns to a key of the dict it
\* is given, Spawn.handle_event registers a new Spawn() on the bus.
DefaultSubscribers == <<"Logging", "File", "Metrics">>
CustomSubscribers == {"Base", "LogMetric"}

\* self.event_types of each object
event_types_wildcard(s) == {"*"}

event_types(s) ==
  CASE s = "Logging" -> {"*"}
    [] s = "File" -> {"*"}
    [] s = "Metrics" -> {"metric", "step_end"}
    [] s = "Base" -> {"*"}
    [] s = "LogMetric" -> {"metric"}
    [] s \in {"Edit", "Spawn"} -> {"*"}

should_handle_always(s, event_type) == TRUE

should_handle(s, event_type) ==
  "*" \in event_types(s) \/ event_type \in event_types(s)

\* ------------------------------------------------------- file persistence
output_dir == "logs/pipeline_events"

file_path_shared(event) == output_dir \o "/" \o "events.jsonl"

\* os.path.join(self.output_dir, f"{pipeline_id}.jsonl")
file_path(event) == output_dir \o "/" \o Get(event, "pipeline_id", "unknown") \o ".jsonl"

\* ------------------------------------------------------- MetricsCollector
EmptyRow == [steps |-> <<>>, metrics |-> <<>>]

\* bucket.append(entry)
AddEntryInFront(bucket, entry) == <<entry>> \o bucket

AddEntry(bucket, entry) == Append(bucket, entry)

\* a row with the bucket of one name, of the kind "steps" or "metrics"
RowWith(kind, name, bucket) ==
  IF kind = "steps" THEN [steps |-> (name :> bucket), metrics |-> <<>>]
  ELSE [steps |-> <<>>, metrics |-> (name :> bucket)]

MetricsCollector_handle_event_reset(m, event, t) ==
  LET event_type == Get(event, "event_type", "unknown")
      pipeline_id == Get(event, "pipeline_id", "unknown")
      step == Get(event, "step", "unknown")
      row == Get(m, pipeline_id, EmptyRow)
  IN  IF event_type = "metric"
      THEN LET metric_name == Get(event, "metric_name", "unknown")
               entry == [value |-> Get(event, "metric_value", 0),
                         step |-> step,
                         timestamp |-> Get(event, "timestamp", t)]
           IN  Put(m, pipeline_id,
                   RowWith("metrics", metric_name,
                           AddEntry(Get(row.metrics, metric_name, <<>>), entry)))
      ELSE IF event_type = "step_end"
      THEN LET entry == [duration |-> Get(event, "duration", 0),
                         timestamp |-> Get(event, "timestamp", t)]
           IN  Put(m, pipeline_id,
                   RowWith("steps", step, AddEntry(Get(row.steps, step, <<>>), entry)))
      ELSE Put(m, pipeline_id, row)

MetricsCollector_handle_event(m, event, t) ==
  LET event_type == Get(event, "event_type", "unknown")
      pipeline_id == Get(event, "pipeline_id", "unknown")
      step == Get(event, "step", "unknown")
      m1 == IF pipeline_id \notin DOMAIN m THEN Put(m, pipeline_id, EmptyRow) ELSE m
      row == m1[pipeline_id]
  IN  IF event_type = "metric"
      THEN LET metric_name == Get(event, "metric_name", "unknown")
               bucket == Get(row.metrics, metric_name, <<>>)
               entry == [value |-> Get(event, "metric_value", 0),
                         step |-> step,
                         timestamp |-> Get(event, "timestamp", t)]
           IN  Put(m1, pipeline_id,
                   [row EXCEPT !.metrics = Put(row.metrics, metric_name, AddEntry(bucket, entry))])
      ELSE IF event_type = "step_end"
      THEN LET bucket == Get(row.steps, step, <<>>)
               entry == [duration |-> Get(event, "duration", 0),
                         timestamp |-> Get(event, "timestamp", t)]
           IN  Put(m1, pipeline_id,
                   [row EXCEPT !.steps = Put(row.steps, step, AddEntry(bucket, entry))])
      ELSE m1

get_step_durations_first(m, pipeline_id) ==
  IF pipeline_id \notin DOMAIN m THEN <<>>
  ELSE [step \in DOMAIN m[pipeline_id].steps |-> <<m[pipeline_id].steps[step][1].duration>>]

\* get_step_durations: {} for an unknown run, else step -> its durations
get_step_durations(m, pipeline_id) ==
  IF pipeline_id \notin DOMAIN m THEN <<>>
  ELSE [step \in DOMAIN m[pipeline_id].steps |->
          [i \in 1..Len(m[pipeline_id].steps[step]) |-> m[pipeline_id].steps[step][i].duration]]

\* get_metric_values: [] for an unknown run or name, else the values
get_metric_values(m, pipeline_id, metric_name) ==
  IF pipeline_id \notin DOMAIN m THEN <<>>
  ELSE IF metric_name \notin DOMAIN m[pipeline_id].metrics THEN <<>>
  ELSE [i \in 1..Len(m[pipeline_id].metrics[metric_name]) |->
          m[pipeline_id].metrics[metric_name][i].value]

RECURSIVE SumSeq(_)
\* sum(durations)
SumSeq(q) == IF q = <<>> THEN 0 ELSE Head(q) + SumSeq(Tail(q))

\* what get_average_duration returns: None, or the float sum / count, kept as
\* the fraction it is
NoData == [kind |-> "None"]
Quotient(sum, count) == [kind |-> "float", sum |-> sum, count |-> count]

get_average_duration_zero(m, pipeline_id, step) ==
  LET durations == Get(get_step_durations(m, pipeline_id), step, <<>>)
  IN  IF durations = <<>> THEN Quotient(0, 1)
      ELSE Quotient(SumSeq(durations), Len(durations))

get_average_duration(m, pipeline_id, step) ==
  LET durations == Get(get_step_durations(m, pipeline_id), step, <<>>)
  IN  IF durations = <<>> THEN NoData
      ELSE Quotient(SumSeq(durations), Len(durations))

\* json.loads(json.dumps(self.metrics)): a new structure built from the text,
\* with the same string keys and the same numbers
JsonCopy(m) ==
  [p \in DOMAIN m |->
     [steps |-> [st \in DOMAIN m[p].steps |->
                   [i \in 1..Len(m[p].steps[st]) |->
                      [duration |-> m[p].steps[st][i].duration,
                       timestamp |-> m[p].steps[st][i].timestamp]]],
      metrics |-> [n \in DOMAIN m[p].metrics |->
                     [i \in 1..Len(m[p].metrics[n]) |->
                        [value |-> m[p].metrics[n][i].value,
                         step |-> m[p].metrics[n][i].step,
                         timestamp |-> m[p].metrics[n][i].timestamp]]]]]

\* export_metrics: the value returned, and the levels of it (the outer dict
\* "top", the dicts of a run "row", the lists "bucket") that are the very
\* objects of self.metrics
export_metrics_shallow(m) == [kind |-> "dict", val |-> m, shares |-> {"row", "bucket"}, muts |-> 0]

export_metrics(m) == [kind |-> "dict", val |-> JsonCopy(m), shares |-> {}, muts |-> 0]

\* ---------------------------------------------------------------- the bus
\* if "timestamp" not in event: event["timestamp"] = time.time()
StampAlways(event, t) == Put(event, "timestamp", t)

Stamp(event, t) ==
  IF "timestamp" \notin DOMAIN event THEN Put(event, "timestamp", t) ELSE event

\* the for loop's iterator: the item at its index in the list as it is now
IterItemReversed(list, i) == list[Len(list) + 1 - i]

IterItem(list, i) == list[i]

\* try: subscriber.handle_event(event) / except Exception: logger.error(...)
\* what the loop does after a handler that returned ("ok") or raised ("raise")
AfterHandlerUncaught(out, i) ==
  IF out = "raise" THEN [pc |-> "idle", idx |-> i, result |-> "raised"]
  ELSE [pc |-> "dispatch", idx |-> i + 1, result |-> "none"]

AfterHandlerRetry(out, i) ==
  IF out = "raise" THEN [pc |-> "dispatch", idx |-> i, result |-> "none"]
  ELSE [pc |-> "dispatch", idx |-> i + 1, result |-> "none"]

AfterHandler(out, i) == [pc |-> "dispatch", idx |-> i + 1, result |-> "none"]

\* the handler of subscriber s, called by thread t, has ended with out
Finish(t, s, out) ==
  LET a == AfterHandler(out, idx[t])
  IN  /\ calls' = [calls EXCEPT ![t] =
                     Append(@, [sub |-> s, pos |-> idx[t], ev |-> ev[t], out |-> out])]
      /\ pc' = [pc EXCEPT ![t] = a.pc]
      /\ idx' = [idx EXCEPT ![t] = a.idx]
      /\ result' = [result EXCEPT ![t] = a.result]

\* the subscriber the loop of thread t is at
AtSubscriber(t, s) ==
  /\ pc[t] = "dispatch"
  /\ idx[t] <= Len(subscribers)
  /\ IterItem(subscribers, idx[t]) = s

Wanted(t, s) == should_handle(s, Get(ev[t], "event_type", "unknown"))

\* register_subscriber: with self.lock: self.subscribers.append(subscriber)
register_subscriber_once(list, s) ==
  IF \E k \in 1..Len(list) : list[k] = s THEN list ELSE Append(list, s)

register_subscriber(list, s) == Append(list, s)

Register(t, s) ==
  /\ pc[t] = "idle"
  /\ Len(subscribers) < MaxSubs
  /\ subscribers' = register_subscriber(subscribers, s)
  /\ UNCHANGED <<now, metrics, file_locks, nlocks, held, files,
                 pc, ev, arg, idx, snap, calls, result, cur, npub, handled, nonBus>>

\* publish_event up to the for loop
Publish(t, event) ==
  /\ pc[t] = "idle"
  /\ pc' = [pc EXCEPT ![t] = "dispatch"]
  /\ arg' = [arg EXCEPT ![t] = event]
  /\ ev' = [ev EXCEPT ![t] = Stamp(event, now)]
  /\ idx' = [idx EXCEPT ![t] = 1]
  /\ snap' = [snap EXCEPT ![t] = subscribers]
  /\ calls' = [calls EXCEPT ![t] = <<>>]
  /\ result' = [result EXCEPT ![t] = "none"]
  /\ npub' = npub + 1
  /\ UNCHANGED <<now, subscribers, metrics, file_locks, nlocks, held, files, cur, handled>>

\* if subscriber.should_handle(event_type) is false: next item
Skip(t) ==
  /\ pc[t] = "dispatch"
  /\ idx[t] <= Len(subscribers)
  /\ ~Wanted(t, IterItem(subscribers, idx[t]))
  /\ idx' = [idx EXCEPT ![t] = @ + 1]
  /\ UNCHANGED <<now, subscribers, metrics, file_locks, nlocks, held, files,
                 pc, ev, arg, snap, calls, result, cur, npub, handled, nonBus>>

\* the iterator is exhausted: publish_event returns, and its frame (the event,
\* the iterator) is gone
PublishReturn(t) ==
  /\ pc[t] = "dispatch"
  /\ idx[t] > Len(subscribers)
  /\ pc' = [pc EXCEPT ![t] = "idle"]
  /\ result' = [result EXCEPT ![t] = "returned"]
  /\ ev' = [ev EXCEPT ![t] = NoEvent]
  /\ arg' = [arg EXCEPT ![t] = NoEvent]
  /\ idx' = [idx EXCEPT ![t] = 1]
  /\ snap' = [snap EXCEPT ![t] = <<>>]
  /\ calls' = [calls EXCEPT ![t] = <<>>]
  /\ UNCHANGED <<now, subscribers, metrics, file_locks, nlocks, held, files, cur, npub, handled, nonBus>>

\* LoggingSubscriber.handle_event: a log line
HandleLogging(t) ==
  /\ \E s \in {"Logging", "LogMetric"} : AtSubscriber(t, s) /\ Wanted(t, s) /\ Finish(t, s, "ok")
  /\ UNCHANGED <<now, subscribers, metrics, file_locks, nlocks, held, files,
                 ev, arg, snap, cur, npub, handled, nonBus>>

\* EventSubscriber.handle_event: raise NotImplementedError
HandleBase(t) ==
  /\ AtSubscriber(t, "Base") /\ Wanted(t, "Base")
  /\ Finish(t, "Base", "raise")
  /\ UNCHANGED <<now, subscribers, metrics, file_locks, nlocks, held, files,
                 ev, arg, snap, cur, npub, handled, nonBus>>

\* MetricsCollector.handle_event: the whole body runs under self.lock
HandleMetrics(t) ==
  /\ AtSubscriber(t, "Metrics") /\ Wanted(t, "Metrics")
  /\ metrics' = MetricsCollector_handle_event(metrics, ev[t], now)
  /\ handled' = Append(handled, ev[t])
  /\ Finish(t, "Metrics", "ok")
  /\ UNCHANGED <<now, subscribers, file_locks, nlocks, held, files,
                 ev, arg, snap, cur, npub, nonBus>>

\* FileStorageSubscriber.handle_event, to the test of line 89
FileCheck(t) ==
  /\ AtSubscriber(t, "File") /\ Wanted(t, "File")
  /\ pc' = [pc EXCEPT ![t] =
              IF file_path(ev[t]) \notin DOMAIN file_locks THEN "f_create" ELSE "f_load"]
  /\ UNCHANGED <<now, subscribers, metrics, file_locks, nlocks, held, files,
                 ev, arg, idx, snap, calls, result, cur, npub, handled, nonBus>>

\* self.file_locks[file_path] = threading.Lock()
FileCreate(t) ==
  /\ pc[t] = "f_create"
  /\ nlocks' = nlocks + 1
  /\ file_locks' = Put(file_locks, file_path(ev[t]), nlocks + 1)
  /\ pc' = [pc EXCEPT ![t] = "f_load"]
  /\ UNCHANGED <<now, subscribers, metrics, held, files,
                 ev, arg, idx, snap, calls, result, cur, npub, handled, nonBus>>

FileLoadShared(t) ==
  /\ pc[t] = "f_load"
  /\ cur' = [cur EXCEPT ![t] = 1]
  /\ pc' = [pc EXCEPT ![t] = "f_acquire"]
  /\ UNCHANGED <<now, subscribers, metrics, file_locks, nlocks, held, files,
                 ev, arg, idx, snap, calls, result, npub, handled, nonBus>>

\* the value of self.file_locks[file_path] in the with statement
FileLoad(t) ==
  /\ pc[t] = "f_load"
  /\ cur' = [cur EXCEPT ![t] = file_locks[file_path(ev[t])]]
  /\ pc' = [pc EXCEPT ![t] = "f_acquire"]
  /\ UNCHANGED <<now, subscribers, metrics, file_locks, nlocks, held, files,
                 ev, arg, idx, snap, calls, result, npub, handled, nonBus>>

\* the with statement acquires that lock, waiting while it is held
FileAcquire(t) ==
  /\ pc[t] = "f_acquire"
  /\ cur[t] \notin held
  /\ held' = held \cup {cur[t]}
  /\ pc' = [pc EXCEPT ![t] = "f_write"]
  /\ UNCHANGED <<now, subscribers, metrics, file_locks, nlocks, files,
                 ev, arg, idx, snap, calls, result, cur, npub, handled, nonBus>>

FileWriteTruncating(t) ==
  /\ pc[t] = "f_write"
  /\ files' = Put(files, file_path(ev[t]), <<ev[t]>>)
  /\ held' = held \ {cur[t]}
  /\ cur' = [cur EXCEPT ![t] = 0]
  /\ Finish(t, "File", "ok")
  /\ UNCHANGED <<now, subscribers, metrics, file_locks, nlocks,
                 ev, arg, snap, npub, handled, nonBus>>

\* with open(file_path, "a") as f: f.write(json.dumps(event) + "\n"), and
\* the lock is released as the with statement is left
FileWrite(t) ==
  /\ pc[t] = "f_write"
  /\ files' = Put(files, file_path(ev[t]), Append(Get(files, file_path(ev[t]), <<>>), ev[t]))
  /\ held' = held \ {cur[t]}
  /\ cur' = [cur EXCEPT ![t] = 0]
  /\ Finish(t, "File", "ok")
  /\ UNCHANGED <<now, subscribers, metrics, file_locks, nlocks,
                 ev, arg, snap, npub, handled, nonBus>>

\* open or write fails (OSError): the lock is released and the error raised
FileWriteFailsHolding(t) ==
  /\ pc[t] = "f_write"
  /\ Finish(t, "File", "raise")
  /\ UNCHANGED <<now, subscribers, metrics, file_locks, nlocks, held, files,
                 ev, arg, snap, cur, npub, handled, nonBus>>

FileWriteFails(t) ==
  /\ pc[t] = "f_write"
  /\ held' = held \ {cur[t]}
  /\ cur' = [cur EXCEPT ![t] = 0]
  /\ Finish(t, "File", "raise")
  /\ UNCHANGED <<now, subscribers, metrics, file_locks, nlocks, files,
                 ev, arg, snap, npub, handled, nonBus>>

\* the clock advances
Tick ==
  /\ now < MaxClock
  /\ now' = now + 1
  /\ UNCHANGED <<subscribers, metrics, file_locks, nlocks, held, files,
                 pc, ev, arg, idx, snap, calls, result, cur, npub, handled, nonBus>>

\* the steps of a thread inside publish_event
Dispatch(t) ==
  \/ Skip(t)
  \/ PublishReturn(t)
  \/ HandleLogging(t)
  \/ HandleBase(t)
  \/ HandleMetrics(t)
  \/ FileCheck(t)
  \/ FileCreate(t)
  \/ FileLoad(t)
  \/ FileAcquire(t)
  \/ FileWrite(t)
  \/ FileWriteFails(t)

\* ------------------------------------------------------------ the bus spec
\* the event dicts given to publish_event
StepStartEvent == [event_type |-> "step_start", pipeline_id |-> "p1", step |-> "load"]
MetricEvent == [event_type |-> "metric", pipeline_id |-> "p1", step |-> "load",
                metric_name |-> "latency_ms", metric_value |-> 7]
BusEvents == {StepStartEvent, Put(MetricEvent, "timestamp", 5)}

\* the bus with the given subscriber list, nothing published yet
InitBus(list) ==
  /\ now = 0
  /\ subscribers = list
  /\ metrics = <<>>
  /\ file_locks = <<>>
  /\ nlocks = 0
  /\ held = {}
  /\ files = <<>>
  /\ pc = [t \in Threads |-> "idle"]
  /\ ev = [t \in Threads |-> NoEvent]
  /\ arg = [t \in Threads |-> NoEvent]
  /\ idx = [t \in Threads |-> 1]
  /\ snap = [t \in Threads |-> <<>>]
  /\ calls = [t \in Threads |-> <<>>]
  /\ result = [t \in Threads |-> "none"]
  /\ cur = [t \in Threads |-> 0]
  /\ npub = 0
  /\ handled = <<>>

\* the state of the class before any PipelineEventManager() call
InitCtor ==
  /\ instance = 0
  /\ initialized = FALSE
  /\ lists = <<>>
  /\ subs_ref = 0
  /\ mc_ref = 0
  /\ lock_ref = 0
  /\ nobj = 0
  /\ ipc = [t \in Threads |-> "out"]
  /\ ilist = [t \in Threads |-> 0]
  /\ isub = [t \in Threads |-> NoSubscriber]
  /\ got = [t \in Threads |-> 0]
  /\ nctor = 0
  /\ ninit = 0

\* the contexts PipelineContext("p1") and PipelineContext("p2"), just created
InitCtx ==
  /\ start_time = [p \in Pipelines |-> 0]
  /\ step_times = [p \in Pipelines |-> <<>>]

InitExp == exported = NoExport

\* no call, no context and no outcome of the wrapper
NoCall == [explicit |-> "none", first |-> "none", kw |-> "none"]
NoContext == "none"
NoOutcome == [kind |-> "none"]

\* no thread holds the lock
NoOwner == "free"

\* no register_subscriber call is under way
NoRegistration == [sub |-> None, npub |-> 0, inside |-> {}]

\* nothing read yet
NoResult == [call |-> "none"]

\* the locks are free, nothing was read, published or registered
InitConc ==
  /\ mlock = NoOwner
  /\ reglock = NoOwner
  /\ seen = NoResult
  /\ sent = <<>>
  /\ registered = <<>>
  /\ rsub = [t \in Threads |-> NoRegistration]

\* a Python list with the given items
ListOf(items) == [py |-> "list", items |-> items]

\* SessionState(0, validator) just constructed, nobody inside get or set; and
\* st.session_state as _initialize_session_state leaves it, of which the keys
\* "errors" (a list) and "current_plan" (None) are followed
InitState ==
  /\ sval = 0
  /\ slock = NoOwner
  /\ spc = [t \in Threads |-> "idle"]
  /\ snew = [t \in Threads |-> 0]
  /\ sret = [t \in Threads |-> [kind |-> "none"]]
  /\ accepted = {}
  /\ session_state = [k \in {"errors", "current_plan"} |->
                        IF k = "errors" THEN ListOf(<<>>) ELSE [py |-> "NoneType"]]
  /\ aout = [op |-> "none"]

\* the wrapper has not been called
InitWrap ==
  /\ wpc = "out"
  /\ wcall = NoCall
  /\ wctx = NoContext
  /\ wfunc = NoOutcome
  /\ wout = NoOutcome
  /\ emitted = <<>>
  /\ ncalls = 0

\* the state after PipelineEventManager.__init__ has run once
Init == InitBus(DefaultSubscribers) /\ InitCtor /\ InitCtx /\ InitExp /\ InitWrap /\ InitConc /\ InitState

\* the state before the first PipelineEventManager() call
InitClass == InitBus(<<>>) /\ InitCtor /\ InitCtx /\ InitExp /\ InitWrap /\ InitConc /\ InitState

\* publish_event(event), called with a dict built by the caller
PublishEventLocked(t, event) ==
  /\ npub < MaxPublish
  /\ reglock = NoOwner
  /\ reglock' = t
  /\ Publish(t, event)
  /\ UNCHANGED <<ctorVars, ctxVars, expVars, wrapVars, stateVars, mlock, seen, sent, registered, rsub>>

PublishEvent(t, event) ==
  /\ npub < MaxPublish
  /\ Publish(t, event)
  /\ UNCHANGED nonBus

Next ==
  \/ Tick
  \/ \E t \in Threads, s \in CustomSubscribers : Register(t, s)
  \/ \E t \in Threads, e \in BusEvents : PublishEvent(t, e)
  \/ \E t \in Threads : Dispatch(t)

\* threads publishing to and registering on the initialised bus
Spec == Init /\ [][Next]_vars

\* ------------------------------------------------------- PipelineContext
StepNames == {"load", "embed"}
MetricValues == {7, 9}

\* the dict record_step_start publishes
StepStartEventOf(p, step) ==
  [event_type |-> "step_start", pipeline_id |-> p, parent_id |-> None, step |-> step]

\* the dict record_step_end publishes, for outputs = None
StepEndEventOf(p, step, duration) ==
  [event_type |-> "step_end", pipeline_id |-> p, parent_id |-> None, step |-> step,
   duration |-> duration, output_info |-> None]

\* the dict record_metric publishes
MetricEventOf(p, step, metric_name, value) ==
  [event_type |-> "metric", pipeline_id |-> p, parent_id |-> None, step |-> step,
   metric_name |-> metric_name, metric_value |-> value]

\* self.step_times[step] = time.time()
start_step_keep_first(times, step, t) ==
  IF step \in DOMAIN times THEN times ELSE Put(times, step, t)

start_step(times, step, t) == Put(times, step, t)

\* start_time = self.step_times.get(step, self.start_time)
\* duration = time.time() - start_time
duration_from_creation(times, step, created, t) == t - created

duration_unstarted_zero(times, step, created, t) ==
  IF step \in DOMAIN times THEN t - times[step] ELSE 0

duration_of(times, step, created, t) == t - Get(times, step, created)

\* what get_step_timing returns: None, or the float
Seconds(x) == [kind |-> "float", val |-> x]

\* get_step_timing(step)
get_step_timing(times, step, t) ==
  IF step \in DOMAIN times THEN Seconds(t - times[step]) ELSE NoData

\* record_step_start(step) on the context of pipeline p, to the for loop of
\* publish_event
RecordStepStart(t, p, step) ==
  /\ npub < MaxRecord
  /\ step_times' = [step_times EXCEPT ![p] = start_step(@, step, now)]
  /\ Publish(t, StepStartEventOf(p, step))
  /\ UNCHANGED <<start_time, ctorVars, expVars, wrapVars, concVars, stateVars>>

\* record_step_end(step): the start is the step's recorded start, or the
\* context's start_time when there is none
RecordStepEnd(t, p, step) ==
  /\ npub < MaxRecord
  /\ Publish(t, StepEndEventOf(p, step, duration_of(step_times[p], step, start_time[p], now)))
  /\ UNCHANGED nonBus

\* record_metric(step, metric_name, value)
RecordMetric(t, p, step, metric_name, value) ==
  /\ npub < MaxRecord
  /\ Publish(t, MetricEventOf(p, step, metric_name, value))
  /\ UNCHANGED nonBus

\* the steps of a thread inside publish_event on a bus with the three
\* subscribers of __init__, where every write to the event files succeeds
DispatchDefaults(t) ==
  \/ Skip(t)
  \/ PublishReturn(t)
  \/ HandleLogging(t)
  \/ HandleMetrics(t)
  \/ FileCheck(t)
  \/ FileCreate(t)
  \/ FileLoad(t)
  \/ FileAcquire(t)
  \/ FileWrite(t)

NextMetrics ==
  \/ Tick
  \/ \E p \in Pipelines : RecordStepStart("t1", p, "load")
  \/ \E p \in Pipelines, step \in StepNames : RecordStepEnd("t1", p, step)
  \/ \E p \in Pipelines, v \in MetricValues : RecordMetric("t1", p, "embed", "latency_ms", v)
  \/ DispatchDefaults("t1")

\* one thread recording steps and metrics on the contexts of two pipelines
SpecMetrics == Init /\ [][NextMetrics]_vars

\* ------------------------------------------------ threads writing files
\* the events two contexts publish
FileEvents ==
  {StepStartEventOf(p, "load") : p \in Pipelines}
    \cup {MetricEventOf(p, "embed", "latency_ms", 7) : p \in Pipelines}

\* publish_event(event) by thread t, written down in sent
PublishLogged(t, event) ==
  /\ npub < MaxPublish
  /\ Publish(t, event)
  /\ sent' = Append(sent, [thread |-> t, event |-> ev'[t]])
  /\ UNCHANGED <<ctorVars, ctxVars, expVars, wrapVars, stateVars, mlock, reglock, seen, registered, rsub>>

NextFiles ==
  \/ \E t \in Threads, e \in FileEvents : PublishLogged(t, e)
  \/ \E t \in Threads : DispatchDefaults(t)

\* two threads publishing the events of two contexts on a bus whose file
\* writes succeed
SpecFiles == Init /\ [][NextFiles]_vars

\* ------------------------------------------------ contexts made over time
\* no PipelineContext has been created yet
InitNoContext ==
  /\ InitBus(DefaultSubscribers) /\ InitCtor /\ InitExp /\ InitWrap /\ InitConc /\ InitState
  /\ start_time = <<>>
  /\ step_times = <<>>

\* PipelineContext(p): PipelineEventManager() gives the initialised bus
CreateContext(p) ==
  /\ p \notin DOMAIN start_time
  /\ start_time' = Put(start_time, p, now)
  /\ step_times' = Put(step_times, p, <<>>)
  /\ UNCHANGED <<busVars, ctorVars, expVars, wrapVars, concVars, stateVars>>

\* the record_* calls of one thread on the contexts that exist
StartStep(p, step) == p \in DOMAIN start_time /\ RecordStepStart("t1", p, step)
EndStep(p, step) == p \in DOMAIN start_time /\ RecordStepEnd("t1", p, step)

NextContext ==
  \/ Tick
  \/ \E p \in Pipelines : CreateContext(p)
  \/ \E p \in Pipelines : StartStep(p, "load")
  \/ \E p \in Pipelines, step \in StepNames : EndStep(p, step)
  \/ DispatchDefaults("t1")

\* one thread creating contexts and timing steps on them
SpecContext == InitNoContext /\ [][NextContext]_vars

\* ------------------------------------------------------------ step_timing
\* the values the wrapped operation returns: None, a list, an object with
\* attributes, a number
NoneValue == [py |-> "NoneType"]
ListValue == [py |-> "list", length |-> 2]
ObjectValue == [py |-> "Document", attributes |-> <<"text">>]
NumberValue == [py |-> "int"]
Results == {NoneValue, ListValue}

\* the exceptions the wrapped operation raises
Failures == {[type |-> "ValueError", msg |-> "bad input"]}

\* output_info of record_step_end, for each kind of outputs
output_info_none(outputs) == NoData

output_info(outputs) ==
  CASE outputs.py = "NoneType" -> NoData
    [] outputs.py \in {"list", "tuple"} ->
         [kind |-> "dict", type |-> outputs.py, length |-> outputs.length]
    [] "attributes" \in DOMAIN outputs ->
         [kind |-> "dict", type |-> outputs.py, attributes |-> outputs.attributes]
    [] OTHER -> [kind |-> "dict", type |-> outputs.py]

\* the dict record_step_end publishes, for the outputs given
StepEndEventWith(p, step, duration, outputs) ==
  [event_type |-> "step_end", pipeline_id |-> p, parent_id |-> None, step |-> step,
   duration |-> duration, output_info |-> output_info(outputs)]

\* the dict record_error publishes
ErrorEventOf(p, step, error) ==
  [event_type |-> "error", pipeline_id |-> p, parent_id |-> None, step |-> step,
   error |-> error.msg, error_type |-> error.type]

\* the context wrapper works on before it creates one: NoContext when none
\* was found
resolve_context(explicit, first, kw) ==
  IF explicit = NoContext /\ first # NoContext THEN first
  ELSE IF kw # NoContext THEN kw
  ELSE explicit

\* str(uuid.uuid4()): the id of the n-th context created without one
uuid4(n) == "u" \o ToString(n)

\* how the wrapper's call ends for its caller
Returned(value) == [kind |-> "returned", value |-> value]
Raised(error) == [kind |-> "raised", error |-> error]

\* except Exception as e: ... raise
reraise_suppressed(error) == Returned(NoneValue)

reraise(error) == Raised(error)

\* self.step_name
step_name == "load"

\* wrapper(*args, **kwargs) to the for loop of the publish_event call of
\* record_step_start: the context is resolved, or created, and the step started
WrapperEnter(explicit, first, kw) ==
  /\ wpc = "out"
  /\ pc["t1"] = "idle"
  /\ ncalls < MaxCalls
  /\ LET found == resolve_context(explicit, first, kw)
         context == IF found = NoContext THEN uuid4(ncalls + 1) ELSE found
         times == IF found = NoContext THEN Put(step_times, context, <<>>) ELSE step_times
     IN  /\ start_time' = IF found = NoContext THEN Put(start_time, context, now) ELSE start_time
         /\ step_times' = [times EXCEPT ![context] = start_step(@, step_name, now)]
         /\ Publish("t1", StepStartEventOf(context, step_name))
         /\ wctx' = context
  /\ wcall' = [explicit |-> explicit, first |-> first, kw |-> kw]
  /\ wpc' = "w_start"
  /\ wfunc' = NoOutcome
  /\ wout' = NoOutcome
  /\ emitted' = <<ev'["t1"]>>
  /\ ncalls' = ncalls + 1
  /\ UNCHANGED <<ctorVars, expVars, concVars, stateVars>>

\* result = func(*args, **kwargs) returned, and record_step_end(step_name,
\* result) to the for loop of its publish_event
FuncReturns(value) ==
  /\ wpc = "w_start"
  /\ pc["t1"] = "idle"
  /\ Publish("t1", StepEndEventWith(wctx, step_name,
                  duration_of(step_times[wctx], step_name, start_time[wctx], now), value))
  /\ wfunc' = Returned(value)
  /\ wpc' = "w_end"
  /\ emitted' = Append(emitted, ev'["t1"])
  /\ UNCHANGED <<wcall, wctx, wout, ncalls, ctorVars, ctxVars, expVars, concVars, stateVars>>

\* func(*args, **kwargs) raised an Exception, and record_error(step_name, e)
\* to the for loop of its publish_event
FuncRaises(error) ==
  /\ wpc = "w_start"
  /\ pc["t1"] = "idle"
  /\ Publish("t1", ErrorEventOf(wctx, step_name, error))
  /\ wfunc' = Raised(error)
  /\ wpc' = "w_error"
  /\ emitted' = Append(emitted, ev'["t1"])
  /\ UNCHANGED <<wcall, wctx, wout, ncalls, ctorVars, ctxVars, expVars, concVars, stateVars>>

\* return result
WrapperReturn ==
  /\ wpc = "w_end"
  /\ pc["t1"] = "idle"
  /\ wout' = Returned(wfunc.value)
  /\ wpc' = "out"
  /\ UNCHANGED <<wcall, wctx, wfunc, emitted, ncalls, busVars, ctorVars, ctxVars, expVars, concVars, stateVars>>

\* raise, at the end of the except clause
WrapperReraise ==
  /\ wpc = "w_error"
  /\ pc["t1"] = "idle"
  /\ wout' = reraise(wfunc.error)
  /\ wpc' = "out"
  /\ UNCHANGED <<wcall, wctx, wfunc, emitted, ncalls, busVars, ctorVars, ctxVars, expVars, concVars, stateVars>>

\* the contexts a call may be given: step_timing none or that of p1, the
\* operation's first argument and its context keyword none or that of p2
GivenExplicit == {NoContext, "p1"}
GivenArgument == {NoContext, "p2"}

NextWrap ==
  \/ Tick
  \/ \E explicit \in GivenExplicit, first, kw \in GivenArgument : WrapperEnter(explicit, first, kw)
  \/ \E value \in Results : FuncReturns(value)
  \/ \E error \in Failures : FuncRaises(error)
  \/ WrapperReturn
  \/ WrapperReraise
  \/ DispatchDefaults("t1")
  \/ FileWriteFails("t1")

\* one thread calling an operation wrapped by step_timing, on a bus whose file
\* writes may fail
SpecWrap == Init /\ [][NextWrap]_vars

\* ------------------------------------------- a caller of export_metrics
\* what the caller may do to the dict it was given
remove_run(v, p) == [q \in DOMAIN v \ {p} |-> v[q]]
add_run(v, p) == Put(v, p, EmptyRow)
remove_bucket(v, p, n) ==
  Put(v, p, [v[p] EXCEPT !.metrics = [k \in DOMAIN v[p].metrics \ {n} |-> v[p].metrics[k]]])
append_entry(v, p, n) ==
  Put(v, p, [v[p] EXCEPT !.metrics =
               Put(v[p].metrics, n, Append(v[p].metrics[n], [value |-> 0, step |-> "x", timestamp |-> 0]))])

\* the mutation op of the run p (and its bucket n) of a value
Mutated(op, v, p, n) ==
  CASE op = "remove_run" -> remove_run(v, p)
    [] op = "add_run" -> add_run(v, p)
    [] op = "remove_bucket" -> remove_bucket(v, p, n)
    [] op = "append_entry" -> append_entry(v, p, n)

\* the level of the structure the mutation writes to
LevelOf(op) ==
  CASE op \in {"remove_run", "add_run"} -> "top"
    [] op = "remove_bucket" -> "row"
    [] op = "append_entry" -> "bucket"

\* the mutation can be applied to the value
Applies(op, v, p, n) ==
  CASE op = "remove_run" -> p \in DOMAIN v
    [] op = "add_run" -> p \notin DOMAIN v
    [] op \in {"remove_bucket", "append_entry"} -> p \in DOMAIN v /\ n \in DOMAIN v[p].metrics

\* a caller calls export_metrics and keeps what it returns
Export ==
  /\ exported' = export_metrics(metrics)
  /\ UNCHANGED <<busVars, ctorVars, ctxVars, wrapVars, concVars, stateVars>>

\* the caller mutates the dict it was given; the aggregator sees the write
\* where the written object is one of its own
Mutate(op, p, n) ==
  /\ exported.kind = "dict"
  /\ exported.muts < MaxMutate
  /\ Applies(op, exported.val, p, n)
  /\ exported' = [exported EXCEPT !.val = Mutated(op, @, p, n), !.muts = @ + 1]
  /\ IF LevelOf(op) \in exported.shares /\ Applies(op, metrics, p, n)
     THEN metrics' = Mutated(op, metrics, p, n)
     ELSE UNCHANGED metrics
  /\ UNCHANGED <<now, subscribers, file_locks, nlocks, held, files,
                 pc, ev, arg, idx, snap, calls, result, cur, npub, handled,
                 ctorVars, ctxVars, wrapVars, concVars, stateVars>>

MutationOps == {"remove_run", "add_run", "remove_bucket", "append_entry"}

NextExport ==
  \/ RecordStepStart("t1", "p1", "load")
  \/ RecordStepEnd("t1", "p1", "load")
  \/ RecordMetric("t1", "p1", "embed", "latency_ms", 7)
  \/ DispatchDefaults("t1")
  \/ Export
  \/ \E op \in MutationOps, p \in Pipelines : Mutate(op, p, "latency_ms")

\* one thread recording on one context, and a caller of export_metrics that
\* mutates what it gets
SpecExport == Init /\ [][NextExport]_vars

\* ------------------------------------------- the construction of the bus
\* PipelineEventManager(): __new__ runs under cls._lock, then __init__ is
\* called on the instance it returned
Construct(t) ==
  /\ ipc[t] \in {"out", "raised"}
  /\ nctor < MaxConstruct
  /\ nctor' = nctor + 1
  /\ IF instance = 0
     THEN instance' = 1 /\ initialized' = FALSE
     ELSE UNCHANGED <<instance, initialized>>
  /\ got' = [got EXCEPT ![t] = instance']
  /\ ipc' = [ipc EXCEPT ![t] = "i_check"]
  /\ UNCHANGED <<lists, subs_ref, mc_ref, lock_ref, nobj, ilist, isub, ninit,
                 busVars, ctxVars, expVars, wrapVars, concVars, stateVars>>

\* if self._initialized: return
InitCheckAlways(t) ==
  /\ ipc[t] = "i_check"
  /\ ipc' = [ipc EXCEPT ![t] = "i_subs"] /\ ninit' = ninit + 1
  /\ UNCHANGED <<instance, initialized, lists, subs_ref, mc_ref, lock_ref, nobj,
                 ilist, isub, got, nctor, busVars, ctxVars, expVars, wrapVars, concVars, stateVars>>

InitCheck(t) ==
  /\ ipc[t] = "i_check"
  /\ IF initialized
     THEN ipc' = [ipc EXCEPT ![t] = "out"] /\ UNCHANGED ninit
     ELSE ipc' = [ipc EXCEPT ![t] = "i_subs"] /\ ninit' = ninit + 1
  /\ UNCHANGED <<instance, initialized, lists, subs_ref, mc_ref, lock_ref, nobj,
                 ilist, isub, got, nctor, busVars, ctxVars, expVars, wrapVars, concVars, stateVars>>

\* self.subscribers = []
InitSubscribers(t) ==
  /\ ipc[t] = "i_subs"
  /\ lists' = Append(lists, <<>>)
  /\ subs_ref' = Len(lists) + 1
  /\ ipc' = [ipc EXCEPT ![t] = "i_mc"]
  /\ UNCHANGED <<instance, initialized, mc_ref, lock_ref, nobj,
                 ilist, isub, got, nctor, ninit, busVars, ctxVars, expVars, wrapVars, concVars, stateVars>>

\* self.metrics_collector = MetricsCollector()
InitCollector(t) ==
  /\ ipc[t] = "i_mc"
  /\ nobj' = nobj + 1
  /\ mc_ref' = nobj + 1
  /\ ipc' = [ipc EXCEPT ![t] = "i_lock"]
  /\ UNCHANGED <<instance, initialized, lists, subs_ref, lock_ref,
                 ilist, isub, got, nctor, ninit, busVars, ctxVars, expVars, wrapVars, concVars, stateVars>>

\* self.lock = threading.Lock(); then the argument of the first
\* register_subscriber call, LoggingSubscriber(), is built
InitLock(t) ==
  /\ ipc[t] = "i_lock"
  /\ nobj' = nobj + 1
  /\ lock_ref' = nobj + 1
  /\ isub' = [isub EXCEPT ![t] = [kind |-> "Logging", id |-> 0]]
  /\ ipc' = [ipc EXCEPT ![t] = "r_logging"]
  /\ UNCHANGED <<instance, initialized, lists, subs_ref, mc_ref,
                 ilist, got, nctor, ninit, busVars, ctxVars, expVars, wrapVars, concVars, stateVars>>

\* where __init__ goes on after the register_subscriber call for each kind
AfterRegister(kind) ==
  CASE kind = "Logging" -> "a_file"
    [] kind = "File" -> "a_metrics"
    [] kind = "Metrics" -> "i_done"

\* register_subscriber, inside with self.lock: self.subscribers is read
RegisterLoad(t) ==
  /\ ipc[t] \in {"r_logging", "r_file", "r_metrics"}
  /\ ilist' = [ilist EXCEPT ![t] = subs_ref]
  /\ ipc' = [ipc EXCEPT ![t] = "append"]
  /\ UNCHANGED <<instance, initialized, lists, subs_ref, mc_ref, lock_ref, nobj,
                 isub, got, nctor, ninit, busVars, ctxVars, expVars, wrapVars, concVars, stateVars>>

\* register_subscriber: append on the list that was read
RegisterAppend(t) ==
  /\ ipc[t] = "append"
  /\ lists' = [lists EXCEPT ![ilist[t]] = register_subscriber(@, isub[t])]
  /\ ilist' = [ilist EXCEPT ![t] = 0]
  /\ ipc' = [ipc EXCEPT ![t] = AfterRegister(isub[t].kind)]
  /\ UNCHANGED <<instance, initialized, subs_ref, mc_ref, lock_ref, nobj,
                 isub, got, nctor, ninit, busVars, ctxVars, expVars, wrapVars, concVars, stateVars>>

\* the argument of the second call: FileStorageSubscriber()
ArgFile(t) ==
  /\ ipc[t] = "a_file"
  /\ isub' = [isub EXCEPT ![t] = [kind |-> "File", id |-> 0]]
  /\ ipc' = [ipc EXCEPT ![t] = "r_file"]
  /\ UNCHANGED <<instance, initialized, lists, subs_ref, mc_ref, lock_ref, nobj,
                 ilist, got, nctor, ninit, busVars, ctxVars, expVars, wrapVars, concVars, stateVars>>

\* the argument of the third call: self.metrics_collector as it is now
ArgCollector(t) ==
  /\ ipc[t] = "a_metrics"
  /\ isub' = [isub EXCEPT ![t] = [kind |-> "Metrics", id |-> mc_ref]]
  /\ ipc' = [ipc EXCEPT ![t] = "r_metrics"]
  /\ UNCHANGED <<instance, initialized, lists, subs_ref, mc_ref, lock_ref, nobj,
                 ilist, got, nctor, ninit, busVars, ctxVars, expVars, wrapVars, concVars, stateVars>>

\* self._initialized = True, and __init__ returns
InitDone(t) ==
  /\ ipc[t] = "i_done"
  /\ initialized' = TRUE
  /\ isub' = [isub EXCEPT ![t] = NoSubscriber]
  /\ ipc' = [ipc EXCEPT ![t] = "out"]
  /\ UNCHANGED <<instance, lists, subs_ref, mc_ref, lock_ref, nobj,
                 ilist, got, nctor, ninit, busVars, ctxVars, expVars, wrapVars, concVars, stateVars>>

NextCtor ==
  \E t \in Threads :
    \/ Construct(t)
    \/ InitCheck(t)
    \/ InitSubscribers(t)
    \/ InitCollector(t)
    \/ InitLock(t)
    \/ RegisterLoad(t)
    \/ RegisterAppend(t)
    \/ ArgFile(t)
    \/ ArgCollector(t)
    \/ InitDone(t)

\* threads calling PipelineEventManager() on a class that has no instance yet
SpecCtor == InitClass /\ [][NextCtor]_vars

\* FileStorageSubscriber(): os.makedirs raises OSError; nothing in __init__
\* catches it, so the PipelineEventManager() call ends by raising it
ArgFileFails(t) ==
  /\ ipc[t] = "a_file"
  /\ isub' = [isub EXCEPT ![t] = NoSubscriber]
  /\ got' = [got EXCEPT ![t] = 0]
  /\ ipc' = [ipc EXCEPT ![t] = "raised"]
  /\ UNCHANGED <<instance, initialized, lists, subs_ref, mc_ref, lock_ref, nobj,
                 ilist, nctor, ninit, busVars, ctxVars, expVars, wrapVars, concVars, stateVars>>

NextCtorFail ==
  \E t \in Threads :
    \/ Construct(t)
    \/ InitCheck(t)
    \/ InitSubscribers(t)
    \/ InitCollector(t)
    \/ InitLock(t)
    \/ RegisterLoad(t)
    \/ RegisterAppend(t)
    \/ ArgFile(t)
    \/ ArgFileFails(t)
    \/ ArgCollector(t)
    \/ InitDone(t)

\* threads calling PipelineEventManager() where the output directory may fail
\* to be created
SpecCtorFail == InitClass /\ [][NextCtorFail]_vars

\* ----------------------------------------------- claims on the construction
\* the kinds of the subscribers in the bus's list, in order
SubscriberKinds == [i \in 1..Len(lists[subs_ref]) |-> lists[subs_ref][i].kind]

\* every PipelineEventManager() call so far has returned
AllConstructed == nctor > 0 /\ \A t \in Threads : ipc[t] = "out"

\* C3: whatever the interleaving of the first PipelineEventManager() calls, every
\* thread gets the one instance and __init__ takes effect once: when the calls
\* have returned, the list holds one LoggingSubscriber, one FileStorageSubscriber
\* and one MetricsCollector.
C3_InitialisedOnce ==
  AllConstructed =>
    /\ \A t \in Threads : got[t] \in {0, instance}
    /\ SubscriberKinds = DefaultSubscribers

\* ------------------------------------------------------- claims on the bus
\* the thread is inside FileStorageSubscriber.handle_event
InFileHandler(t) == pc[t] \in {"f_create", "f_load", "f_acquire", "f_write"}

\* the for loop of publish_event has run out of items
LoopDone(t) == pc[t] = "dispatch" /\ idx[t] > Len(subscribers)

\* the subscriber's filter matches the type: the wildcard, or the type itself
Matches(s, event_type) == "*" \in event_types(s) \/ event_type \in event_types(s)

\* a call of the thread's publish_event was made for position j of the list
CalledAt(t, j) == \E k \in 1..Len(calls[t]) : calls[t][k].pos = j /\ calls[t][k].sub = subscribers[j]

\* C1: a subscriber whose handle_event raises does not stop the delivery: every
\* matching subscriber after it in the list that the loop has passed was called
\* for the event, and publish_event never ends by raising.
C1_FailureIsolated ==
  \A t \in Threads :
    /\ result[t] # "raised"
    /\ \A k \in 1..Len(calls[t]) :
         calls[t][k].out = "raise" =>
           \A j \in (calls[t][k].pos + 1)..Len(subscribers) :
             (j < idx[t] /\ Matches(subscribers[j], ev[t].event_type)) => CalledAt(t, j)

\* C1's case: File raised, the loop ran to its end, and a later subscriber was called
C1_Witness ==
  \E t \in Threads :
    /\ LoopDone(t)
    /\ \E k, l \in 1..Len(calls[t]) :
         /\ calls[t][k].out = "raise"
         /\ calls[t][l].pos > calls[t][k].pos
         /\ calls[t][l].out = "ok"

\* C2: a publish_event calls only subscribers that were in the list when it was
\* entered: one registered during the dispatch is not called for that event.
C2_SnapshotDelivery ==
  \A t \in Threads : \A k \in 1..Len(calls[t]) : calls[t][k].pos <= Len(snap[t])

\* C4: no two threads are in the append section (lock held, open/write) of
\* FileStorageSubscriber.handle_event for the same file path at the same time.
C4_OneWriterPerFile ==
  \A t, u \in Threads :
    (t # u /\ pc[t] = "f_write" /\ pc[u] = "f_write") => file_path(ev[t]) # file_path(ev[u])

\* C5: handle_event is never called on a subscriber whose event_types holds
\* neither "*" nor the event's type.
C5_FilterRespected ==
  \A t \in Threads :
    /\ \A k \in 1..Len(calls[t]) : Matches(calls[t][k].sub, calls[t][k].ev.event_type)
    /\ InFileHandler(t) => Matches(subscribers[idx[t]], ev[t].event_type)

\* C5's case: the loop ran to its end and passed a subscriber it did not call,
\* whose filter excludes the event
C5_Witness ==
  \E t \in Threads :
    /\ LoopDone(t)
    /\ \E j \in 1..Len(subscribers) :
         ~Matches(subscribers[j], ev[t].event_type) /\ ~CalledAt(t, j)
    /\ Len(calls[t]) > 0

\* C6: within one publish_event the calls are made in the order of the list,
\* which is the order of registration: each call is for the subscriber at its
\* position, the positions only grow, and a call has ended before the loop is
\* at a later position.
C6_RegistrationOrder ==
  \A t \in Threads :
    /\ \A k \in 1..Len(calls[t]) :
         /\ calls[t][k].pos < idx[t]
         /\ calls[t][k].pos <= Len(subscribers)
         /\ calls[t][k].sub = subscribers[calls[t][k].pos]
    /\ \A k, l \in 1..Len(calls[t]) : k < l => calls[t][k].pos < calls[t][l].pos

\* C6's case: a subscriber registered after the defaults was called after them
C6_Witness ==
  \E t \in Threads :
    /\ Len(calls[t]) >= 3
    /\ calls[t][Len(calls[t])].sub \in CustomSubscribers

\* C7: publish_event, before it calls any subscriber, gives the event the
\* current time as timestamp when it has none and leaves it as it is when it
\* has one; every call of the dispatch is made with that event.
C7_Step ==
  \A t \in Threads :
    /\ (pc[t] = "idle" /\ pc'[t] = "dispatch") =>
         /\ calls'[t] = <<>>
         /\ "timestamp" \in DOMAIN ev'[t]
         /\ DOMAIN ev'[t] = DOMAIN arg'[t] \cup {"timestamp"}
         /\ \A f \in DOMAIN arg'[t] : ev'[t][f] = arg'[t][f]
         /\ "timestamp" \notin DOMAIN arg'[t] => ev'[t].timestamp = now
    /\ (pc[t] # "idle" /\ pc'[t] # "idle") => ev'[t] = ev[t]
    /\ \A k \in 1..Len(calls'[t]) : calls'[t][k].ev = ev'[t]

C7_Timestamp == [][C7_Step]_vars

\* C7's case: one dispatch under way with a timestamp the bus assigned, another
\* with the timestamp its publisher gave
C7_Witness ==
  \E t, u \in Threads :
    /\ "timestamp" \notin DOMAIN arg[t] /\ Len(calls[t]) > 0
    /\ calls[t][1].ev.timestamp = 1
    /\ "timestamp" \in DOMAIN arg[u] /\ Len(calls[u]) > 0
    /\ calls[u][1].ev.timestamp = 5

\* ---------------------------------------------- claims on the aggregator
\* every handling of an event by the collector is complete
Settled == \A t \in Threads : pc[t] = "idle"

\* the events of one type handled so far for a pipeline id
HandledOf(event_type, p) ==
  LET Is(e) == e.event_type = event_type /\ e.pipeline_id = p
  IN  SelectSeq(handled, Is)

\* the step_end events handled so far for (p, step)
StepEndsOf(p, step) ==
  LET Is(e) == e.step = step
  IN  SelectSeq(HandledOf("step_end", p), Is)

\* the metric events handled so far for (p, name)
MetricsOf(p, name) ==
  LET Is(e) == e.metric_name = name
  IN  SelectSeq(HandledOf("metric", p), Is)

\* the run ids and names asked for: the recorded ones and one never recorded
AskedRuns == Pipelines \cup {"p9"}
AskedSteps == StepNames \cup {"never"}
AskedMetrics == {"latency_ms", "never"}

\* C8: a mutation of the dict export_metrics returned changes nothing of what
\* export_metrics, get_step_durations, get_metric_values and
\* get_average_duration return afterwards.
C8_Step ==
  (exported.kind = "dict" /\ exported'.kind = "dict" /\ exported'.muts = exported.muts + 1) =>
    /\ export_metrics(metrics').val = export_metrics(metrics).val
    /\ \A p \in AskedRuns :
         /\ get_step_durations(metrics', p) = get_step_durations(metrics, p)
         /\ \A n \in AskedMetrics : get_metric_values(metrics', p, n) = get_metric_values(metrics, p, n)
         /\ \A st \in AskedSteps : get_average_duration(metrics', p, st) = get_average_duration(metrics, p, st)

C8_ExportIndependent == [][C8_Step]_vars

\* C8's case: the caller has mutated an exported dict of a collector that holds
\* entries, and the dict now differs from what the collector exports
C8_Witness ==
  /\ exported.kind = "dict"
  /\ exported.muts > 0
  /\ metrics # <<>>
  /\ exported.val # export_metrics(metrics).val

\* C9: get_average_duration is None exactly when no step_end was handled for
\* (run, step), for an unknown run and for a known run with an unknown step
\* alike, and else the sum of the handled durations over their count.
C9_AverageDuration ==
  \A p \in AskedRuns, st \in AskedSteps :
    LET ends == StepEndsOf(p, st)
        durations == [i \in 1..Len(ends) |-> ends[i].duration]
    IN  IF ends = <<>>
        THEN get_average_duration(metrics, p, st) = NoData
        ELSE get_average_duration(metrics, p, st) = Quotient(SumSeq(durations), Len(ends))

\* C9's case: a known run with a step that has no step_end, and a step with
\* two step_end events of different durations
C9_Witness ==
  \E p \in Pipelines, st \in StepNames :
    /\ Len(StepEndsOf(p, st)) = 2
    /\ StepEndsOf(p, st)[1].duration # StepEndsOf(p, st)[2].duration
    /\ \E other \in StepNames : StepEndsOf(p, other) = <<>>
    /\ get_average_duration(metrics, p, st).count = 2

\* C10: get_metric_values(run, name) is the metric_value of every metric event
\* handled for that run and name, in the order they were handled, and the empty
\* list for an unknown run or name.
C10_MetricValues ==
  \A p \in AskedRuns, n \in AskedMetrics :
    LET evs == MetricsOf(p, n)
    IN  get_metric_values(metrics, p, n) = [i \in 1..Len(evs) |-> evs[i].metric_value]

\* C10's case: two metric events of different values handled for one run, and
\* another run that has none
C10_Witness ==
  /\ Settled
  /\ get_metric_values(metrics, "p1", "latency_ms") = <<9, 7>>
  /\ get_metric_values(metrics, "p2", "latency_ms") = <<>>
  /\ "p2" \in DOMAIN metrics

\* C11: get_step_durations(run) maps each step that has a step_end handled for
\* the run, and no other, to the durations of those events in the order they
\* were handled; it is the empty mapping for a run no event was aggregated for.
C11_StepDurations ==
  \A p \in AskedRuns :
    LET d == get_step_durations(metrics, p)
    IN  /\ (HandledOf("step_end", p) = <<>> /\ HandledOf("metric", p) = <<>>) => d = <<>>
        /\ DOMAIN d = {st \in AskedSteps : StepEndsOf(p, st) # <<>>}
        /\ \A st \in DOMAIN d :
             d[st] = [i \in 1..Len(StepEndsOf(p, st)) |-> StepEndsOf(p, st)[i].duration]

\* C11's case: two step_end events of different durations handled for one step
\* of a run, and a run that has only a metric event
C11_Witness ==
  \E p, q \in Pipelines, st \in StepNames :
    /\ Settled
    /\ p \in DOMAIN metrics
    /\ st \in DOMAIN get_step_durations(metrics, p)
    /\ Len(get_step_durations(metrics, p)[st]) = 2
    /\ get_step_durations(metrics, p)[st][1] # get_step_durations(metrics, p)[st][2]
    /\ q \in DOMAIN metrics
    /\ get_step_durations(metrics, q) = <<>>

\* the bucket of (run, kind, name), empty where there is none
Bucket(m, p, kind, name) ==
  IF p \in DOMAIN m THEN Get(m[p][kind], name, <<>>) ELSE <<>>

\* the buckets the aggregator holds
BucketKeys(m) ==
  {<<p, kind, name>> \in (DOMAIN m) \X {"steps", "metrics"} \X (AskedSteps \cup AskedMetrics) :
     name \in DOMAIN m[p][kind]}

\* the bucket an event goes to, and the entry made of it
TargetOf(e) ==
  IF e.event_type = "metric" THEN <<e.pipeline_id, "metrics", e.metric_name>>
  ELSE <<e.pipeline_id, "steps", e.step>>
EntryOf(e) ==
  IF e.event_type = "metric"
  THEN [value |-> e.metric_value, step |-> e.step, timestamp |-> e.timestamp]
  ELSE [duration |-> e.duration, timestamp |-> e.timestamp]

\* C12: the handling of one metric or step_end event appends one entry, made
\* of the event's fields, to the bucket of the event's (run, name) or (run,
\* step); no other bucket changes, none is added or removed, and nothing else
\* changes the aggregator.
C12_Step ==
  IF handled' = handled THEN metrics' = metrics
  ELSE LET e == handled'[Len(handled')]
           k == TargetOf(e)
       IN  /\ handled' = Append(handled, e)
           /\ Bucket(metrics', k[1], k[2], k[3]) = Append(Bucket(metrics, k[1], k[2], k[3]), EntryOf(e))
           /\ BucketKeys(metrics') = BucketKeys(metrics) \cup {k}
           /\ \A b \in BucketKeys(metrics) \ {k} :
                Bucket(metrics', b[1], b[2], b[3]) = Bucket(metrics, b[1], b[2], b[3])

C12_OneEntryPerEvent == [][C12_Step]_vars

\* C12's case: a metric event and a step_end event handled for one run, and an
\* entry appended to a bucket that had one
C12_Witness ==
  \E p \in Pipelines, st \in StepNames :
    /\ Len(Bucket(metrics, p, "metrics", "latency_ms")) = 2
    /\ Len(Bucket(metrics, p, "steps", st)) = 1
    /\ Len(handled) = 3

\* the file of a run id, and what stands in it
FileOf(p) == file_path([pipeline_id |-> p])
ContentsOf(fs, p) == Get(fs, FileOf(p), <<>>)

\* the thread took a step of a publish_event whose event has the run id a
Published(t, a) ==
  /\ <<pc'[t], idx'[t], ev'[t]>> # <<pc[t], idx[t], ev[t]>>
  /\ \/ pc[t] # "idle" /\ ev[t].pipeline_id = a
     \/ pc[t] = "idle" /\ ev'[t].pipeline_id = a

\* C13: a step of the publication of an event of run id A leaves, for every
\* other run id B, get_step_durations(B), get_metric_values(B, name) and the
\* contents of B.jsonl as they were.
C13_Step ==
  \A t \in Threads, a \in Pipelines :
    Published(t, a) =>
      \A b \in AskedRuns \ {a} :
        /\ get_step_durations(metrics', b) = get_step_durations(metrics, b)
        /\ \A n \in AskedMetrics : get_metric_values(metrics', b, n) = get_metric_values(metrics, b, n)
        /\ ContentsOf(files', b) = ContentsOf(files, b)
        /\ (b \in DOMAIN metrics' <=> b \in DOMAIN metrics)

C13_RunsKeptApart == [][C13_Step]_vars

\* C13's case: events of two run ids were published; each run has its row and
\* its file, holding its own events only
C13_Witness ==
  /\ Settled
  /\ get_metric_values(metrics, "p1", "latency_ms") = <<7>>
  /\ get_step_durations(metrics, "p2") # <<>>
  /\ Len(ContentsOf(files, "p1")) = 1
  /\ Len(ContentsOf(files, "p2")) = 2
  /\ \A p \in Pipelines : \A i \in 1..Len(ContentsOf(files, p)) : ContentsOf(files, p)[i].pipeline_id = p

\* ------------------------------------------------ claims on the contexts
\* the events published on the context of p so far, as its file holds them
\* (every write succeeds and the thread is back from publish_event)
HistoryOf(p) == ContentsOf(files, p)

\* position k of the history is an event of the type for the step
IsAt(p, k, event_type, step) ==
  HistoryOf(p)[k].event_type = event_type /\ HistoryOf(p)[k].step = step

\* the positions before k where the step was started
StartsBefore(p, k, step) == {j \in 1..(k - 1) : IsAt(p, j, "step_start", step)}

\* the largest element of a non-empty set of positions
Last(S) == CHOOSE j \in S : \A i \in S : i <= j

\* C14: a step_end event of a step that was started before carries as duration
\* the clock value of the record_step_end call less the clock value of the last
\* record_step_start call of that step, which is not negative.
C14_DurationIsElapsed ==
  \A p \in DOMAIN start_time : \A k \in 1..Len(HistoryOf(p)) : \A step \in StepNames :
    (IsAt(p, k, "step_end", step) /\ StartsBefore(p, k, step) # {}) =>
      LET e == HistoryOf(p)[k]
          b == HistoryOf(p)[Last(StartsBefore(p, k, step))]
      IN  e.duration = e.timestamp - b.timestamp /\ e.duration >= 0

\* C14's case: a step started at 0 on a context created at 0, ended at 1
C14_Witness ==
  \E p \in DOMAIN start_time, step \in StepNames :
    /\ Settled
    /\ Len(HistoryOf(p)) = 2
    /\ IsAt(p, 1, "step_start", step) /\ IsAt(p, 2, "step_end", step)
    /\ HistoryOf(p)[1].timestamp = 0
    /\ HistoryOf(p)[2].duration = 1

C16_UnstartedFromCreation ==
  \A p \in DOMAIN start_time : \A k \in 1..Len(HistoryOf(p)) : \A step \in StepNames :
    (IsAt(p, k, "step_end", step) /\ StartsBefore(p, k, step) = {}) =>
      HistoryOf(p)[k].duration = HistoryOf(p)[k].timestamp - start_time[p]

\* C16's case: on a context created at 0 a step never started was ended at 1,
\* and on a context created at 1 a step never started was ended at 1
C16_Witness ==
  \E p, q \in DOMAIN start_time :
    /\ Settled
    /\ start_time[p] = 0 /\ start_time[q] = 1
    /\ Len(HistoryOf(p)) = 1 /\ Len(HistoryOf(q)) = 1
    /\ HistoryOf(p)[1].event_type = "step_end" /\ HistoryOf(p)[1].duration = 1
    /\ HistoryOf(q)[1].event_type = "step_end" /\ HistoryOf(q)[1].duration = 0

\* the step is open: it was started and not ended since its last start
Open(p, step) ==
  LET all == {k \in 1..Len(HistoryOf(p)) : HistoryOf(p)[k].step = step}
  IN  all # {} /\ HistoryOf(p)[Last(all)].event_type = "step_start"

\* C17: get_step_timing(S) is the time elapsed since the last start of S while
\* S is open, and None for a step never started and for a step that was ended
\* since its last start.
C17_TimingOnlyWhileOpen ==
  Settled =>
    \A p \in DOMAIN start_time : \A step \in StepNames :
      IF Open(p, step)
      THEN get_step_timing(step_times[p], step, now) =
             Seconds(now - HistoryOf(p)[Last(StartsBefore(p, Len(HistoryOf(p)) + 1, step))].timestamp)
      ELSE get_step_timing(step_times[p], step, now) = NoData

\* ------------------------------------------------ claims on step_timing
\* the types of the events the call has published
EmittedTypes == [i \in 1..Len(emitted) |-> emitted[i].event_type]

\* the descriptor the step_end event must carry for a result
DescribedAs(info, value) ==
  CASE value.py = "NoneType" -> info = NoData
    [] value.py = "list" -> info = [kind |-> "dict", type |-> "list", length |-> value.length]

\* the wrapper's call has ended
CallEnded == wpc = "out" /\ ncalls > 0

\* C18: a call of the wrapped operation publishes step_start, whose dispatch
\* is over before the operation runs; when the operation has returned it
\* publishes step_end with the descriptor of the result and nothing else, and
\* when it has raised it publishes error and nothing else.
C18_OneClosingEvent ==
  /\ wpc = "w_start" => (EmittedTypes = <<"step_start">> /\ wfunc = NoOutcome)
  /\ wpc \in {"w_end", "w_error"} \/ CallEnded =>
       /\ wfunc.kind = "returned" =>
            /\ EmittedTypes = <<"step_start", "step_end">>
            /\ DescribedAs(emitted[2].output_info, wfunc.value)
       /\ wfunc.kind = "raised" => EmittedTypes = <<"step_start", "error">>
       /\ wfunc.kind \in {"returned", "raised"}

\* C18's case: a call that returned a list has ended, on a context created
\* for it, and the file of that context holds the two events of the call
C18_Witness ==
  /\ CallEnded
  /\ wfunc = Returned(ListValue)
  /\ wctx \notin Pipelines
  /\ Len(ContentsOf(files, wctx)) = 2
  /\ ContentsOf(files, wctx)[1].event_type = "step_start"
  /\ ContentsOf(files, wctx)[2].output_info.length = 2

\* C19: the caller of the wrapper gets what the operation gave: the value it
\* returned, or the exception it raised, and that after the error event was
\* published and dispatched; a subscriber that fails changes nothing of it.
C19_OutcomeKept ==
  CallEnded =>
    /\ wout = wfunc
    /\ wout.kind = "raised" =>
         \E i \in 1..Len(emitted) :
           /\ emitted[i].event_type = "error"
           /\ emitted[i].error_type = wout.error.type
           /\ emitted[i].error = wout.error.msg

\* C19's case: the operation raised and the file subscriber failed on both
\* events of the call; the exception reached the caller
C19_Witness ==
  /\ CallEnded
  /\ wout.kind = "raised"
  /\ Len(emitted) = 2
  /\ ContentsOf(files, wctx) = <<>>

\* C20: the events of a call are all published on one context: the one given
\* to step_timing if there is one, whatever the arguments; else the first
\* argument if it is a context; else a context created for the call.
C20_ContextPriority ==
  ncalls > 0 =>
    /\ \A i \in 1..Len(emitted) : emitted[i].pipeline_id = wctx
    /\ IF wcall.explicit # NoContext THEN wctx = wcall.explicit
       ELSE IF wcall.first # NoContext THEN wctx = wcall.first
       ELSE wctx \notin Pipelines

\* ------------------------------------- claims on a failing construction
\* C21: a subscriber whose construction fails during the initialisation of the
\* bus does not make PipelineEventManager() raise; when the call is over the
\* bus is initialised and holds the other default subscribers once each.
C21_ConstructionFailureContained ==
  /\ \A t \in Threads : ipc[t] # "raised"
  /\ AllConstructed => initialized

\* ------------------------------------------------- claims on the files
\* the events published so far with the run id, by the thread or by any
SentOf(p) ==
  LET Is(x) == x.event.pipeline_id = p
      picked == SelectSeq(sent, Is)
  IN  [i \in 1..Len(picked) |-> picked[i].event]
SentBy(t, p) ==
  LET Is(x) == x.event.pipeline_id = p /\ x.thread = t
      picked == SelectSeq(sent, Is)
  IN  [i \in 1..Len(picked) |-> picked[i].event]

\* how many times e stands in the sequence
CountIn(q, e) == Cardinality({i \in 1..Len(q) : q[i] = e})

RECURSIVE IsSubsequence(_, _)
\* the items of a stand in b in the same order
IsSubsequence(a, b) ==
  IF a = <<>> THEN TRUE
  ELSE IF b = <<>> THEN FALSE
  ELSE IF Head(a) = Head(b) THEN IsSubsequence(Tail(a), Tail(b))
  ELSE IsSubsequence(a, Tail(b))

\* C22: when every publish_event has returned, the file of each run id holds
\* one line for each event published with that id and no other line, and the
\* events one thread published stand in it in the order it published them.
C22_OneLinePerEvent ==
  \A p \in AskedRuns :
    /\ \A e \in FileEvents : CountIn(ContentsOf(files, p), Stamp(e, 0)) <= CountIn(SentOf(p), Stamp(e, 0))
    /\ Len(ContentsOf(files, p)) <= Len(SentOf(p))
    /\ Settled =>
         /\ Len(ContentsOf(files, p)) = Len(SentOf(p))
         /\ \A e \in FileEvents : CountIn(ContentsOf(files, p), Stamp(e, 0)) = CountIn(SentOf(p), Stamp(e, 0))
         /\ \A t \in Threads : IsSubsequence(SentBy(t, p), ContentsOf(files, p))

\* C22's case: one thread published step_start and then a metric event of p1;
\* the file of p1 holds the two lines in that order
C22_Witness ==
  \E t \in Threads :
    /\ Settled
    /\ Len(SentBy(t, "p1")) = 2
    /\ SentBy(t, "p1")[1].event_type = "step_start"
    /\ SentBy(t, "p1")[2].event_type = "metric"
    /\ ContentsOf(files, "p1") = SentBy(t, "p1")

\* C23: a thread that waits for the lock of its file in
\* FileStorageSubscriber.handle_event waits for a thread that is appending to
\* the same file, never for one appending to the file of another run.
C23_NoCrossRunWait ==
  \A t, u \in Threads :
    (t # u /\ pc[t] = "f_acquire" /\ cur[t] \in held /\ pc[u] = "f_write" /\ cur[u] = cur[t]) =>
      file_path(ev[u]) = file_path(ev[t])

\* C23's case: two threads are in the append section at the same time, each
\* for the file of its own run
C23_Witness ==
  \E t, u \in Threads :
    /\ pc[t] = "f_write" /\ pc[u] = "f_write"
    /\ ev[t].pipeline_id = "p1" /\ ev[u].pipeline_id = "p2"
    /\ cur[t] # cur[u]
    /\ {cur[t], cur[u]} \subseteq held

\* ------------------------------------- the aggregator, statement by statement
\* self.metrics with the bucket of (run, kind, name) set
SetBucketFreshRow(m, p, kind, name, bucket) ==
  Put(m, p, [EmptyRow EXCEPT ![kind] = Put(@, name, bucket)])

SetBucket(m, p, kind, name, bucket) ==
  Put(m, p, [m[p] EXCEPT ![kind] = Put(@, name, bucket)])

\* MetricsCollector.handle_event: with self.lock is entered, and the test of
\* line 118 made
MetricsEnterUnlocked(t) ==
  /\ AtSubscriber(t, "Metrics") /\ Wanted(t, "Metrics")
  /\ mlock' = t
  /\ pc' = [pc EXCEPT ![t] = IF ev[t].pipeline_id \notin DOMAIN metrics THEN "m_row" ELSE "m_test"]
  /\ UNCHANGED <<now, subscribers, metrics, file_locks, nlocks, held, files,
                 ev, arg, idx, snap, calls, result, cur, npub, handled,
                 ctorVars, ctxVars, expVars, wrapVars, stateVars, reglock, seen, sent, registered, rsub>>

MetricsEnter(t) ==
  /\ AtSubscriber(t, "Metrics") /\ Wanted(t, "Metrics")
  /\ mlock = NoOwner
  /\ mlock' = t
  /\ pc' = [pc EXCEPT ![t] = IF ev[t].pipeline_id \notin DOMAIN metrics THEN "m_row" ELSE "m_test"]
  /\ UNCHANGED <<now, subscribers, metrics, file_locks, nlocks, held, files,
                 ev, arg, idx, snap, calls, result, cur, npub, handled,
                 ctorVars, ctxVars, expVars, wrapVars, stateVars, reglock, seen, sent, registered, rsub>>

\* self.metrics[pipeline_id] = {"steps": {}, "metrics": {}}
MetricsMakeRow(t) ==
  /\ pc[t] = "m_row"
  /\ metrics' = Put(metrics, ev[t].pipeline_id, EmptyRow)
  /\ pc' = [pc EXCEPT ![t] = "m_test"]
  /\ UNCHANGED <<now, subscribers, file_locks, nlocks, held, files,
                 ev, arg, idx, snap, calls, result, cur, npub, handled, nonBus>>

\* the test of line 126 or of line 137
MetricsTestBucket(t) ==
  /\ pc[t] = "m_test"
  /\ LET k == TargetOf(ev[t])
     IN  pc' = [pc EXCEPT ![t] = IF k[3] \notin DOMAIN metrics[k[1]][k[2]] THEN "m_bucket" ELSE "m_append"]
  /\ UNCHANGED <<now, subscribers, metrics, file_locks, nlocks, held, files,
                 ev, arg, idx, snap, calls, result, cur, npub, handled, nonBus>>

\* the bucket is set to []
MetricsMakeBucket(t) ==
  /\ pc[t] = "m_bucket"
  /\ LET k == TargetOf(ev[t])
     IN  metrics' = SetBucket(metrics, k[1], k[2], k[3], <<>>)
  /\ pc' = [pc EXCEPT ![t] = "m_append"]
  /\ UNCHANGED <<now, subscribers, file_locks, nlocks, held, files,
                 ev, arg, idx, snap, calls, result, cur, npub, handled, nonBus>>

\* the entry is appended, the with statement left and the lock released
MetricsAppend(t) ==
  /\ pc[t] = "m_append"
  /\ LET k == TargetOf(ev[t])
     IN  metrics' = SetBucket(metrics, k[1], k[2], k[3],
                              AddEntry(metrics[k[1]][k[2]][k[3]], EntryOf(ev[t])))
  /\ mlock' = NoOwner
  /\ handled' = Append(handled, ev[t])
  /\ Finish(t, "Metrics", "ok")
  /\ UNCHANGED <<now, subscribers, file_locks, nlocks, held, files,
                 ev, arg, snap, cur, npub,
                 ctorVars, ctxVars, expVars, wrapVars, stateVars, reglock, seen, sent, registered, rsub>>

\* what an accessor returns for the aggregator state m
AccessorValue(call, m) ==
  CASE call = "export_metrics" -> JsonCopy(m)
    [] call = "get_step_durations" -> get_step_durations(m, "p1")
    [] call = "get_metric_values" -> get_metric_values(m, "p1", "latency_ms")

Accessors == {"export_metrics", "get_step_durations", "get_metric_values"}

\* a reader calls an accessor: its whole body runs under self.lock
AccessorUnlocked(call) ==
  /\ seen' = [call |-> call, val |-> AccessorValue(call, metrics)]
  /\ UNCHANGED <<busVars, ctorVars, ctxVars, expVars, wrapVars, stateVars, mlock, reglock, sent, registered, rsub>>

Accessor(call) ==
  /\ mlock = NoOwner
  /\ seen' = [call |-> call, val |-> AccessorValue(call, metrics)]
  /\ UNCHANGED <<busVars, ctorVars, ctxVars, expVars, wrapVars, stateVars, mlock, reglock, sent, registered, rsub>>

\* the events the threads publish: two metric values, a step start and a
\* step end of p1
AggEvents ==
  {MetricEventOf("p1", "embed", "latency_ms", v) : v \in MetricValues}
    \cup {StepStartEventOf("p1", "load"), StepEndEventOf("p1", "load", 1)}

NextAgg ==
  \/ \E t \in Threads, e \in AggEvents : PublishEvent(t, e)
  \/ \E t \in Threads :
       \/ Skip(t)
       \/ PublishReturn(t)
       \/ HandleLogging(t)
       \/ FileCheck(t)
       \/ FileCreate(t)
       \/ FileLoad(t)
       \/ FileAcquire(t)
       \/ FileWrite(t)
       \/ MetricsEnter(t)
       \/ MetricsMakeRow(t)
       \/ MetricsTestBucket(t)
       \/ MetricsMakeBucket(t)
       \/ MetricsAppend(t)
  \/ \E call \in Accessors : Accessor(call)

\* two threads publishing events of one run, the collector taken statement by
\* statement, and a reader calling the accessors
SpecAgg == Init /\ [][NextAgg]_vars

\* --------------------------------- claims on the aggregator under threads
RECURSIVE StateAfter(_)
\* the aggregator after the complete handling of the events, one after another
StateAfter(q) ==
  IF q = <<>> THEN <<>>
  ELSE MetricsCollector_handle_event(StateAfter(SubSeq(q, 1, Len(q) - 1)), q[Len(q)], 0)

\* C24: what an accessor returned is what it returns for the aggregator as it
\* stood after some number of complete event handlings, never for a state
\* with a row or bucket of an event whose handling was under way.
C24_CompleteStatesOnly ==
  seen.call # "none" =>
    \E k \in 0..Len(handled) :
      seen.val = AccessorValue(seen.call, StateAfter(SubSeq(handled, 1, k)))

\* C24's case: an accessor returned the state after the first handling while
\* the second handling was under way
C24_Witness ==
  /\ seen.call = "get_metric_values"
  /\ Len(seen.val) = 1
  /\ Len(handled) = 2
  /\ Len(handled) > Len(seen.val)

\* C25: whenever no handling is under way, get_metric_values lists as many
\* values as metric events were handled for (run, name), and
\* get_step_durations as many durations as step_end events were handled for
\* (run, step).
C25_NoLostUpdate ==
  mlock = NoOwner =>
    \A p \in AskedRuns :
      /\ \A n \in AskedMetrics : Len(get_metric_values(metrics, p, n)) = Len(MetricsOf(p, n))
      /\ \A st \in AskedSteps :
           Len(Get(get_step_durations(metrics, p), st, <<>>)) = Len(StepEndsOf(p, st))

\* C25's case: the publications of the first two metric events of the run, by
\* two threads, overlapped; both are at their end and both values are there
C25_Witness ==
  /\ \A t \in Threads : LoopDone(t) /\ ev[t].event_type = "metric"
  /\ Len(handled) = 2
  /\ Len(get_metric_values(metrics, "p1", "latency_ms")) = 2

\* ---------------------------------------------- registration, step by step
\* register_subscriber taken statement by statement, next to threads that
\* publish.  publish_event never takes PipelineEventManager.lock.

\* the threads inside a register_subscriber call
Registering == {t \in Threads : pc[t] \in {"r_lock", "r_append", "r_unlock"}}

\* register_subscriber(subscriber) is called.  The call records which threads
\* are inside FileStorageSubscriber.handle_event at this moment, and how many
\* events were published so far.
RegisterCall(t, s) ==
  /\ pc[t] = "idle"
  /\ Len(registered) + Cardinality(Registering) < MaxRegister
  /\ pc' = [pc EXCEPT ![t] = "r_lock"]
  /\ rsub' = [rsub EXCEPT ![t] = [sub |-> s, npub |-> npub,
                                  inside |-> {u \in Threads : InFileHandler(u)}]]
  /\ UNCHANGED <<now, subscribers, metrics, file_locks, nlocks, held, files,
                 ev, arg, idx, snap, calls, result, cur, npub, handled,
                 ctorVars, ctxVars, expVars, wrapVars, stateVars, mlock, reglock, seen, sent, registered>>

\* with self.lock: the lock is taken when it is free
RegisterAcquire(t) ==
  /\ pc[t] = "r_lock"
  /\ reglock = NoOwner
  /\ reglock' = t
  /\ pc' = [pc EXCEPT ![t] = "r_append"]
  /\ UNCHANGED <<now, subscribers, metrics, file_locks, nlocks, held, files,
                 ev, arg, idx, snap, calls, result, cur, npub, handled,
                 ctorVars, ctxVars, expVars, wrapVars, stateVars, mlock, seen, sent, registered, rsub>>

\* self.subscribers.append(subscriber)
RegisterStore(t) ==
  /\ pc[t] = "r_append"
  /\ subscribers' = register_subscriber(subscribers, rsub[t].sub)
  /\ pc' = [pc EXCEPT ![t] = "r_unlock"]
  /\ UNCHANGED <<now, metrics, file_locks, nlocks, held, files,
                 ev, arg, idx, snap, calls, result, cur, npub, handled, nonBus>>

\* the with block is left and the call returns.  The call is recorded with the
\* threads that were inside one handle_event of the File subscriber from the
\* call to the return (no event was published in between, so it is the same one).
RegisterRelease(t) ==
  /\ pc[t] = "r_unlock"
  /\ reglock' = NoOwner
  /\ registered' = Append(registered,
       [sub |-> rsub[t].sub,
        during |-> IF npub = rsub[t].npub
                   THEN {u \in rsub[t].inside : InFileHandler(u)} ELSE {}])
  /\ rsub' = [rsub EXCEPT ![t] = NoRegistration]
  /\ pc' = [pc EXCEPT ![t] = "idle"]
  /\ UNCHANGED <<now, subscribers, metrics, file_locks, nlocks, held, files,
                 ev, arg, idx, snap, calls, result, cur, npub, handled,
                 ctorVars, ctxVars, expVars, wrapVars, stateVars, mlock, seen, sent>>

NextReg ==
  \/ \E t \in Threads, s \in CustomSubscribers : RegisterCall(t, s)
  \/ \E t \in Threads : RegisterAcquire(t)
  \/ \E t \in Threads : RegisterStore(t)
  \/ \E t \in Threads : RegisterRelease(t)
  \/ \E t \in Threads, e \in BusEvents : PublishEvent(t, e)
  \/ \E t \in Threads : Skip(t)
  \/ \E t \in Threads : PublishReturn(t)
  \/ \E t \in Threads : HandleLogging(t)
  \/ \E t \in Threads : HandleBase(t)
  \/ \E t \in Threads : HandleMetrics(t)
  \/ \E t \in Threads : FileCheck(t)
  \/ \E t \in Threads : FileCreate(t)
  \/ \E t \in Threads : FileLoad(t)
  \/ \E t \in Threads : FileAcquire(t)
  \/ \E t \in Threads : FileWrite(t)

\* threads registering on and publishing to the initialised bus
SpecReg == Init /\ [][NextReg]_vars

\* ------------------------------------------------- claims on registration
\* the subscribers of the recorded register_subscriber calls
Subs(q) == [k \in 1..Len(q) |-> q[k].sub]

\* the subscriber a call has appended while it has not returned yet
Appended ==
  IF reglock # NoOwner /\ pc[reglock] = "r_unlock" THEN <<rsub[reglock].sub>> ELSE <<>>

\* how often s is in the list, and how often the thread's publish_event called it
Times(list, s) == Cardinality({k \in 1..Len(list) : list[k] = s})
Invocations(t, s) == Cardinality({k \in 1..Len(calls[t]) : calls[t][k].sub = s})

\* C26: the subscriber list is the defaults followed by one entry per returned
\* register_subscriber call, in the order of the calls (and the entry of a call
\* that has appended and not returned yet); nothing is lost, reordered or
\* merged.  A publish_event whose loop has ended has called a matching
\* subscriber once per entry the list had when the event was published, and at
\* most once per entry it has now.
C26_OneEntryPerRegistration ==
  /\ subscribers = DefaultSubscribers \o Subs(registered) \o Appended
  /\ \A t \in Threads :
       LoopDone(t) =>
         \A s \in CustomSubscribers :
           Matches(s, ev[t].event_type) =>
             /\ Times(snap[t], s) <= Invocations(t, s)
             /\ Invocations(t, s) <= Times(subscribers, s)

\* C26's case: both threads registered the same subscriber, the calls returned,
\* and an event published afterwards was delivered to it twice
C26_Witness ==
  \E t \in Threads, s \in CustomSubscribers :
    /\ LoopDone(t)
    /\ Times(Subs(registered), s) = 2
    /\ Times(snap[t], s) = 2
    /\ Registering = {}
    /\ Invocations(t, s) = 2

\* the thread is inside publish_event
Publishing(t) == pc[t] = "dispatch" \/ InFileHandler(t)

\* C28: PipelineEventManager.lock is never held by a thread that is inside
\* publish_event, so a register_subscriber call that waits for the lock waits
\* only for another register_subscriber call, and one that holds it can go on.
C28_HandlerNeverHoldsLock ==
  /\ \A t \in Threads : Publishing(t) => reglock # t
  /\ \A t \in Threads :
       pc[t] = "r_lock" =>
         \/ ENABLED RegisterAcquire(t)
         \/ reglock \in Registering \ {t}
  /\ \A t \in Threads : pc[t] = "r_append" => ENABLED RegisterStore(t)
  /\ \A t \in Threads : pc[t] = "r_unlock" => ENABLED RegisterRelease(t)

\* C28's case: a register_subscriber call was made and returned while another
\* thread stayed inside one handle_event of the File subscriber
C28_Witness ==
  \E k \in 1..Len(registered), t \in Threads :
    /\ t \in registered[k].during
    /\ InFileHandler(t)

\* C27: within one publish_event no position of the list is called twice, a
\* subscriber is called at most once per entry it has in the list, the handler
\* that is running was not called before for this event, and a call that
\* raised is followed only by calls for later positions.
C27_NeverRetried ==
  \A t \in Threads :
    /\ \A k, l \in 1..Len(calls[t]) : k # l => calls[t][k].pos # calls[t][l].pos
    /\ \A s \in CustomSubscribers \cup {"Logging", "File", "Metrics"} :
         Invocations(t, s) <= Times(subscribers, s)
    /\ InFileHandler(t) => \A k \in 1..Len(calls[t]) : calls[t][k].pos # idx[t]
    /\ \A k, l \in 1..Len(calls[t]) :
         (calls[t][k].out = "raise" /\ k < l) => calls[t][l].pos > calls[t][k].pos

\* C27's case: a subscriber's handle_event raised, the loop went on to its end,
\* and that subscriber was called once for the event
C27_Witness ==
  \E t \in Threads :
    /\ LoopDone(t)
    /\ \E k \in 1..Len(calls[t]) :
         /\ calls[t][k].out = "raise"
         /\ Invocations(t, calls[t][k].sub) = 1
         /\ k = Len(calls[t])

\* ------------------------------------------------------- errors in a step
\* record_error(step, error) on the context of pipeline p, to the for loop of
\* publish_event
RecordErrorForgets(t, p, step, error) ==
  /\ npub < MaxRecord
  /\ step_times' = [step_times EXCEPT ![p] = [s \in DOMAIN @ \ {step} |-> @[s]]]
  /\ Publish(t, ErrorEventOf(p, step, error))
  /\ UNCHANGED <<start_time, ctorVars, expVars, wrapVars, concVars, stateVars>>

RecordError(t, p, step, error) ==
  /\ npub < MaxRecord
  /\ Publish(t, ErrorEventOf(p, step, error))
  /\ UNCHANGED nonBus

NextError ==
  \/ Tick
  \/ \E p \in Pipelines : StartStep(p, "load")
  \/ \E p \in Pipelines, error \in Failures : RecordError("t1", p, "load", error)
  \/ \E p \in Pipelines : EndStep(p, "load")
  \/ DispatchDefaults("t1")

\* one thread starting, failing and ending a step on the two contexts
SpecError == Init /\ [][NextError]_vars

\* the thread makes a step from its caller into publish_event with an error event
ErrorPublished(t) ==
  /\ pc[t] = "idle" /\ pc'[t] = "dispatch"
  /\ arg'[t].event_type = "error"

\* the positions before k where an error of the step was recorded
ErrorsBefore(p, k, step) == {j \in 1..(k - 1) : IsAt(p, j, "error", step)}

\* in the state reached, a step_end of a step that was started and then failed
\* carries the time since the step's last start
ClosedFromStart ==
  \A p \in Pipelines : \A k \in 1..Len(HistoryOf(p)) : \A step \in StepNames :
    (/\ IsAt(p, k, "step_end", step)
     /\ StartsBefore(p, k, step) # {}
     /\ \E j \in ErrorsBefore(p, k, step) : j > Last(StartsBefore(p, k, step))) =>
      LET e == HistoryOf(p)[k]
          b == HistoryOf(p)[Last(StartsBefore(p, k, step))]
      IN  e.duration = e.timestamp - b.timestamp

\* C29: record_error is one publish_event call with the error event (the
\* step, the error's message and its type name), leaves the recorded start
\* times and the outcome of the caller alone and does not raise; and a
\* step_end recorded after a start and an error of the step is published with
\* the duration measured from that start.
C29_Step ==
  /\ \A t \in Threads :
       ErrorPublished(t) =>
         /\ npub' = npub + 1
         /\ step_times' = step_times /\ start_time' = start_time
         /\ result'[t] # "raised"
         /\ \E p \in Pipelines, error \in Failures :
              arg'[t] = ErrorEventOf(p, arg'[t].step, error)
  /\ \A p \in Pipelines :
       ("load" \in DOMAIN step_times[p] /\ ~ \E t \in Threads : pc[t] = "idle" /\ pc'[t] = "dispatch")
         => step_times'[p] = step_times[p]
  /\ ClosedFromStart'

C29_ErroredStepCloses == [][C29_Step]_vars

\* C29's case: a step started at 1 on a context created at 0, then failed, then
\* ended: the three events are in the run's file and the duration is 0
C29_Witness ==
  \E p \in Pipelines :
    /\ pc["t1"] = "idle"
    /\ Len(HistoryOf(p)) = 3
    /\ IsAt(p, 1, "step_start", "load") /\ IsAt(p, 2, "error", "load")
    /\ IsAt(p, 3, "step_end", "load")
    /\ HistoryOf(p)[1].timestamp = 1
    /\ start_time[p] = 0
    /\ HistoryOf(p)[3].duration = 0

\* sequence a is the beginning of sequence b
IsPrefix(a, b) == Len(a) <= Len(b) /\ SubSeq(b, 1, Len(a)) = a

\* C30: no step of the program takes anything out of the aggregator: a run row
\* that exists stays, a bucket that exists stays, and the entries a bucket holds
\* stay at the beginning of the bucket, unchanged and in order (so a bucket of
\* any earlier state is a prefix of the bucket of every later state).
C30_Step ==
  /\ DOMAIN metrics \subseteq DOMAIN metrics'
  /\ BucketKeys(metrics) \subseteq BucketKeys(metrics')
  /\ \A k \in BucketKeys(metrics) :
       IsPrefix(Bucket(metrics, k[1], k[2], k[3]), Bucket(metrics', k[1], k[2], k[3]))

C30_AppendOnly == [][C30_Step]_vars

\* C30's case: a run holds a step bucket next to a metric bucket, one of them
\* with an entry added after the other bucket was made
C30_Witness ==
  \E p \in DOMAIN metrics :
    /\ DOMAIN metrics[p].steps # {}
    /\ DOMAIN metrics[p].metrics # {}
    /\ Len(handled) = 2
    /\ \E k \in BucketKeys(metrics) : Len(Bucket(metrics, k[1], k[2], k[3])) = 1

\* ------------------------------------------ claims on what a publish leaves
\* the event of the publish_event call the thread enters or is inside, in a step
InFlight(t) == IF pc[t] = "idle" THEN ev'[t] ELSE ev[t]

\* the step is one of a publish_event call for a step_start or error event
Unaggregated(t) ==
  /\ pc[t] # "idle" \/ pc'[t] # "idle"
  /\ InFlight(t).event_type \in {"step_start", "error"}

\* C31: no step of a publish_event call for a step_start or an error event
\* changes the aggregator: self.metrics is the same before and after, no row is
\* made for the event's run id, and export_metrics returns the same value.
C31_Step ==
  Unaggregated("t1") =>
    /\ metrics' = metrics
    /\ InFlight("t1").pipeline_id \in DOMAIN metrics' => InFlight("t1").pipeline_id \in DOMAIN metrics
    /\ export_metrics(metrics').val = export_metrics(metrics).val

C31_AggregatorUntouched == [][C31_Step]_vars

\* C31's case: a step_start and an error event of a run went through the whole
\* dispatch (both are in the run's file) and the aggregator has no row for it
C31_Witness ==
  \E p \in Pipelines :
    /\ pc["t1"] = "idle"
    /\ Len(HistoryOf(p)) = 2
    /\ IsAt(p, 1, "step_start", "load") /\ IsAt(p, 2, "error", "load")
    /\ p \notin DOMAIN metrics

\* --------------------------------------- the bus constructed again, in use
\* register_subscriber(EventSubscriber()) on the instance the thread was given
AddSubscriber(t) ==
  /\ ipc[t] = "out" /\ got[t] # 0
  /\ Len(lists[subs_ref]) < MaxSubs
  /\ lists' = [lists EXCEPT ![subs_ref] = register_subscriber(@, [kind |-> "Base", id |-> 0])]
  /\ UNCHANGED <<instance, initialized, subs_ref, mc_ref, lock_ref, nobj, ipc,
                 ilist, isub, got, nctor, ninit, busVars, ctxVars, expVars, wrapVars, concVars, stateVars>>

NextReuse ==
  \E t \in Threads :
    \/ Construct(t)
    \/ InitCheck(t)
    \/ InitSubscribers(t)
    \/ InitCollector(t)
    \/ InitLock(t)
    \/ RegisterLoad(t)
    \/ RegisterAppend(t)
    \/ ArgFile(t)
    \/ ArgCollector(t)
    \/ InitDone(t)
    \/ AddSubscriber(t)

\* threads calling PipelineEventManager() again and again and registering on
\* the instance they get
SpecReuse == InitClass /\ [][NextReuse]_vars

\* the step belongs to a PipelineEventManager() call of the thread that was
\* made when an initialisation had completed
LateConstruction(t) ==
  /\ initialized
  /\ ipc[t] # ipc'[t]
  /\ ipc[t] \in {"out", "raised", "i_check"}

\* C32: a PipelineEventManager() call made after an initialisation has completed
\* gives the instance that exists and returns at the test of _initialized: its
\* steps leave the instance, the subscriber list object and its items, and the
\* collector object as they are.
C32_Step ==
  \A t \in Threads :
    LateConstruction(t) =>
      /\ instance' = instance /\ instance # 0
      /\ got'[t] = instance
      /\ ipc'[t] \in {"i_check", "out"}
      /\ initialized'
      /\ lists' = lists /\ subs_ref' = subs_ref /\ mc_ref' = mc_ref
      /\ ninit' = ninit

C32_ConstructedOnce == [][C32_Step]_vars

\* C32's case: the bus was initialised once, a subscriber was added to it, and
\* a later PipelineEventManager() call is at the test of _initialized
C32_Witness ==
  \E t \in Threads :
    /\ initialized /\ ninit = 1
    /\ ipc[t] = "i_check"
    /\ SubscriberKinds = DefaultSubscribers \o <<"Base">>

\* ------------------------------------------- subscribers written by users
\* Edit.handle_event(event): event["step"] = "edited".  publish_event gives
\* every subscriber the one dict object, so the assignment is to ev[t].
HandleEdit(t) ==
  /\ AtSubscriber(t, "Edit") /\ Wanted(t, "Edit")
  /\ ev' = [ev EXCEPT ![t] = Put(@, "step", "edited")]
  /\ Finish(t, "Edit", "ok")
  /\ UNCHANGED <<now, subscribers, metrics, file_locks, nlocks, held, files,
                 arg, snap, cur, npub, handled, nonBus>>

\* Spawn.handle_event(event): PipelineEventManager().register_subscriber(Spawn()).
\* publish_event holds no lock, so the append goes through; the for loop of
\* publish_event iterates the list that was appended to.
HandleSpawn(t) ==
  /\ AtSubscriber(t, "Spawn") /\ Wanted(t, "Spawn")
  /\ Len(subscribers) < MaxSubs + MaxRegister
  /\ subscribers' = register_subscriber(subscribers, "Spawn")
  /\ Finish(t, "Spawn", "ok")
  /\ UNCHANGED <<now, metrics, file_locks, nlocks, held, files,
                 ev, arg, snap, cur, npub, handled, nonBus>>

NextCustom ==
  \/ \E s \in {"Edit", "Spawn"} : RegisterCall("t1", s)
  \/ RegisterAcquire("t1")
  \/ RegisterStore("t1")
  \/ RegisterRelease("t1")
  \/ \E e \in BusEvents : PublishEvent("t1", e)
  \/ DispatchDefaults("t1")
  \/ HandleEdit("t1")
  \/ HandleSpawn("t1")

\* one thread registering subscribers of its own and publishing
SpecCustom == Init /\ [][NextCustom]_vars

\* C33: every subscriber called for an event was given the same field values:
\* the dicts of all calls of one publish_event are equal.
C33_EventImmutable ==
  \A t \in Threads : \A k, l \in 1..Len(calls[t]) : calls[t][k].ev = calls[t][l].ev

\* the subscribers the loop of the thread has still to visit, the one it is
\* at included
Remaining(t) == Len(subscribers) + 1 - idx[t]

\* C34: the for loop of publish_event comes closer to its end with every
\* handle_event call that returns: fewer subscribers remain to be visited
\* after the call than before it, so the loop ends after as many calls as the
\* list had items.
C34_Step ==
  \A t \in Threads :
    (pc[t] = "dispatch" /\ pc'[t] = "dispatch" /\ idx'[t] = idx[t] + 1) =>
      Remaining(t)' < Remaining(t)

C34_LoopComesToItsEnd == [][C34_Step]_vars

\* ------------------------------------------------ the three kinds of lock
\* the steps of a thread inside register_subscriber or publish_event, with
\* the file subscriber and the collector taken statement by statement
LockSteps(t) ==
  \/ RegisterAcquire(t)
  \/ RegisterStore(t)
  \/ RegisterRelease(t)
  \/ Skip(t)
  \/ PublishReturn(t)
  \/ HandleLogging(t)
  \/ FileCheck(t)
  \/ FileCreate(t)
  \/ FileLoad(t)
  \/ FileAcquire(t)
  \/ FileWrite(t)
  \/ FileWriteFails(t)
  \/ MetricsEnter(t)
  \/ MetricsMakeRow(t)
  \/ MetricsTestBucket(t)
  \/ MetricsMakeBucket(t)
  \/ MetricsAppend(t)

NextLocks ==
  \/ RegisterCall("t2", "LogMetric")
  \/ \E t \in Threads : PublishEvent(t, StepEndEventOf("p1", "load", 1))
  \/ \E t \in Threads : LockSteps(t)
  \/ Accessor("export_metrics")

\* two threads publishing, one of them registering, and a reader of the aggregator
SpecLocks == Init /\ [][NextLocks]_vars

\* the locks the thread holds
HeldBy(t) ==
  {k \in {"registration"} : reglock = t}
    \cup {k \in {"aggregator"} : mlock = t}
    \cup {k \in {"file"} : pc[t] = "f_write"}

\* C35: a thread holds at most one of the locks and none when it is outside a
\* with block (so none after its operation returned or raised); every held
\* file lock has its holder inside the with block; and a thread inside an
\* operation can take a step, or waits for a lock whose holder can take one.
C35_NoDeadlock ==
  /\ \A t \in Threads :
       /\ Cardinality(HeldBy(t)) <= 1
       /\ reglock = t => pc[t] \in {"r_append", "r_unlock"}
       /\ mlock = t => pc[t] \in {"m_row", "m_test", "m_bucket", "m_append"}
       /\ pc[t] \in {"idle", "dispatch", "r_lock", "f_create", "f_load", "f_acquire"} => HeldBy(t) = {}
  /\ held = {cur[t] : t \in {u \in Threads : pc[u] = "f_write"}}
  /\ \A t \in Threads :
       pc[t] # "idle" =>
         \/ ENABLED LockSteps(t)
         \/ \E u \in Threads \ {t} : HeldBy(u) # {} /\ ENABLED LockSteps(u)

\* C35's case: a file write of one thread failed and raised, and the other
\* thread now holds the lock of the same file, after a registration
C35_Witness ==
  \E t, u \in Threads :
    /\ t # u
    /\ \E k \in 1..Len(calls[t]) : calls[t][k].sub = "File" /\ calls[t][k].out = "raise"
    /\ pc[u] = "f_write"
    /\ file_path(ev[u]) = file_path(ev[t])
    /\ registered # <<>>

\* ------------------------------------------------ claims on the collector
\* the collector get_metrics_collector() returns is an item of the bus's list
CollectorRegistered ==
  \E i \in 1..Len(lists[subs_ref]) : lists[subs_ref][i] = [kind |-> "Metrics", id |-> mc_ref]

\* C36: once an initialisation of the bus has completed, the object
\* get_metrics_collector() returns (self.metrics_collector) is the
\* MetricsCollector in self.subscribers, in every state.
C36_CollectorIsRegistered == initialized => CollectorRegistered

\* ------------------------------------------------------------ SessionState
\* the validator the object was made with: lambda v: v < 2
validator(v) == v < 2

\* set(new_value): the with statement takes self.lock.  The thread is not
\* inside another call on the object, so the RLock is taken when free; the
\* call has no outcome yet.
SetEnter(t, v) ==
  /\ spc[t] = "idle"
  /\ slock = NoOwner
  /\ slock' = t
  /\ snew' = [snew EXCEPT ![t] = v]
  /\ sret' = [sret EXCEPT ![t] = [kind |-> "none"]]
  /\ spc' = [spc EXCEPT ![t] = "s_validate"]
  /\ UNCHANGED <<sval, accepted, session_state, aout,
                 busVars, ctorVars, ctxVars, expVars, wrapVars, concVars>>

\* if self.validator and not self.validator(new_value): raise
\* StateValidationError, which leaves the with block and releases the lock
SetValidateLate(t) ==
  /\ spc[t] = "s_validate"
  /\ sval' = snew[t]
  /\ IF validator(snew[t])
     THEN /\ spc' = [spc EXCEPT ![t] = "s_assign"]
          /\ UNCHANGED <<slock, sret>>
     ELSE /\ spc' = [spc EXCEPT ![t] = "idle"]
          /\ slock' = NoOwner
          /\ sret' = [sret EXCEPT ![t] = [kind |-> "raised", error |-> "StateValidationError"]]
  /\ UNCHANGED <<snew, accepted, session_state, aout,
                 busVars, ctorVars, ctxVars, expVars, wrapVars, concVars>>

SetValidate(t) ==
  /\ spc[t] = "s_validate"
  /\ IF validator(snew[t])
     THEN /\ spc' = [spc EXCEPT ![t] = "s_assign"]
          /\ UNCHANGED <<slock, sret>>
     ELSE /\ spc' = [spc EXCEPT ![t] = "idle"]
          /\ slock' = NoOwner
          /\ sret' = [sret EXCEPT ![t] = [kind |-> "raised", error |-> "StateValidationError"]]
  /\ UNCHANGED <<sval, snew, accepted, session_state, aout,
                 busVars, ctorVars, ctxVars, expVars, wrapVars, concVars>>

\* self.value = new_value; the with block is left and set returns None
SetAssign(t) ==
  /\ spc[t] = "s_assign"
  /\ sval' = snew[t]
  /\ accepted' = accepted \cup {snew[t]}
  /\ slock' = NoOwner
  /\ sret' = [sret EXCEPT ![t] = [kind |-> "None"]]
  /\ spc' = [spc EXCEPT ![t] = "idle"]
  /\ UNCHANGED <<snew, session_state, aout,
                 busVars, ctorVars, ctxVars, expVars, wrapVars, concVars>>

\* get(): with self.lock
GetEnter(t) ==
  /\ spc[t] = "idle"
  /\ slock = NoOwner
  /\ slock' = t
  /\ sret' = [sret EXCEPT ![t] = [kind |-> "none"]]
  /\ spc' = [spc EXCEPT ![t] = "g_read"]
  /\ UNCHANGED <<sval, snew, accepted, session_state, aout,
                 busVars, ctorVars, ctxVars, expVars, wrapVars, concVars>>

\* return self.value
GetReturn(t) ==
  /\ spc[t] = "g_read"
  /\ sret' = [sret EXCEPT ![t] = [kind |-> "value", val |-> sval]]
  /\ slock' = NoOwner
  /\ spc' = [spc EXCEPT ![t] = "idle"]
  /\ UNCHANGED <<sval, snew, accepted, session_state, aout,
                 busVars, ctorVars, ctxVars, expVars, wrapVars, concVars>>

NextSession ==
  \/ \E t \in Threads, v \in 0..2 : SetEnter(t, v)
  \/ \E t \in Threads : SetValidate(t)
  \/ \E t \in Threads : SetAssign(t)
  \/ \E t \in Threads : GetEnter(t)
  \/ \E t \in Threads : GetReturn(t)

\* two threads calling get and set on one SessionState
SpecSession == Init /\ [][NextSession]_vars

\* C37: a set call whose value the validator rejects ends by raising
\* StateValidationError and leaves self.value as it was (no step of a set call
\* before its assignment changes it); and get returns the initial value or a
\* value given to a set call that returned.
C37_Step ==
  \A t \in Threads :
    /\ (spc[t] = "s_validate" /\ spc'[t] # "s_validate") =>
         /\ sval' = sval
         /\ ~validator(snew[t]) <=> sret'[t] = [kind |-> "raised", error |-> "StateValidationError"]
         /\ ~validator(snew[t]) <=> spc'[t] = "idle"
    /\ (spc[t] = "g_read" /\ spc'[t] = "idle") =>
         /\ sret'[t].kind = "value"
         /\ sret'[t].val \in {0} \cup accepted
         /\ \A v \in accepted : validator(v)

C37_RejectedSetKeepsValue == [][C37_Step]_vars

\* C37's case: a set call with a rejected value has raised after another set
\* call had stored a value, and a get call then returned the stored value
C37_Witness ==
  \E t, u \in Threads :
    /\ t # u
    /\ sret[t] = [kind |-> "raised", error |-> "StateValidationError"]
    /\ snew[t] = 2
    /\ sret[u] = [kind |-> "value", val |-> 1]
    /\ sval = 1

\* ---------------------------------------------------------- AppStateManager
\* append(key, value): the state afterwards and how the call ends
append(state, key, value) ==
  LET made == IF key \notin DOMAIN state THEN Put(state, key, ListOf(<<>>)) ELSE state
  IN  IF made[key].py # "list"
      THEN [state |-> made, out |-> [kind |-> "raised", error |-> "TypeError"]]
      ELSE [state |-> Put(made, key, ListOf(Append(made[key].items, value))),
            out |-> [kind |-> "None"]]

AppAppend(key, value) ==
  /\ key \in DOMAIN session_state /\ session_state[key].py = "list"
       => Len(session_state[key].items) < MaxList
  /\ session_state' = append(session_state, key, value).state
  /\ aout' = [op |-> "append", key |-> key, value |-> value,
              out |-> append(session_state, key, value).out]
  /\ UNCHANGED <<sval, slock, spc, snew, sret, accepted,
                 busVars, ctorVars, ctxVars, expVars, wrapVars, concVars>>

\* clear(key) with a key: elif key in st.session_state: del st.session_state[key]
AppClear(key) ==
  /\ session_state' = [k \in DOMAIN session_state \ {key} |-> session_state[k]]
  /\ aout' = [op |-> "clear", key |-> key, out |-> [kind |-> "None"]]
  /\ UNCHANGED <<sval, slock, spc, snew, sret, accepted,
                 busVars, ctorVars, ctxVars, expVars, wrapVars, concVars>>

NextApp ==
  \/ \E key \in {"errors", "current_plan", "notes"}, value \in {"a", "b"} : AppAppend(key, value)
  \/ \E key \in {"errors", "current_plan", "notes"} : AppClear(key)

\* one script run calling append and clear on the manager
SpecApp == Init /\ [][NextApp]_vars

\* C38: an append call for a key that is not in the session state, or whose
\* value is not a list, raises TypeError and leaves the session state as it
\* was; any other append call returns, and the list under the key is the old
\* one with the value at its end, the other keys as they were.
C38_Step ==
  (aout'.op = "append" /\ <<aout, session_state>>' # <<aout, session_state>>) =>
    LET key == aout'.key
    IN  IF key \notin DOMAIN session_state \/ session_state[key].py # "list"
        THEN /\ aout'.out = [kind |-> "raised", error |-> "TypeError"]
             /\ session_state' = session_state
        ELSE /\ aout'.out = [kind |-> "None"]
             /\ session_state' = [session_state EXCEPT
                                    ![key] = ListOf(Append(@.items, aout'.value))]

C38_AppendChecksKey == [][C38_Step]_vars

====
